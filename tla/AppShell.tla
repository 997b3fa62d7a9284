------------------------------- MODULE AppShell -------------------------------
(***************************************************************************)
(* The web frontend's shell (frontend/src/App.tsx): which tab is shown, the *)
(* browser history behind it, what other tabs leave for it to open, and    *)
(* what of the shown tab is mirrored into the address.                      *)
(*                                                                         *)
(* A handler, the rendering it causes and the effects of that are a step;  *)
(* history.back() is not, and lands later.  Switching with a view          *)
(* transition is switching.                                                 *)
(***************************************************************************)
EXTENDS Naturals, Sequences

CONSTANTS
    Tab,        \* sections
    Home, Vnc,  \* two of them
    Carry,      \* those that open what another tab asks for
    Posted,     \* of these, what inside code-server the extension opens instead
    Gated,      \* those inside RequiresUnlock
    Value,      \* sessions, paths, projects, VNC targets
    None,
    MaxBacks    \* a bound on the history.back() that have not landed

VARIABLES
    embed,     \* EMBED: a view inside code-server
    entries,   \* the history's entries: tab, homeBelow mark and query
    pos,       \* the current one
    going,     \* how often history.back() was called and has not landed
    active,
    pending,   \* pendingTerminalOpen or restoreTerminalSession, pendingFilesPath, pendingProjectPath
    locked,    \* the gate, as the page knows it
    visited,   \* vncVisited
    target     \* vncActiveRef

address == <<entries, pos, going>>
content == <<pending, visited, target>>
vars == <<embed, address, active, content, locked>>

Entry(t, mark, q) == [at |-> t, mark |-> mark, query |-> q]
Query(t, v) == IF v = None THEN {} ELSE {<<t, v>>}
Mounted(t) == active = t /\ (t \in Gated => ~locked)

\* writeQuery, into an entry: its state is carried over.
\* Fault: it is not.
WrittenBare(e, t, v) == Entry(e.at, FALSE, {x \in e.query : x[1] # t} \cup Query(t, v))

Written(e, t, v) == [e EXCEPT !.query = {x \in @ : x[1] # t} \cup Query(t, v)]

\* What is shown after the address became es[p]; a VNC tab that shows again
\* puts its target back into it.
\* Fault: it does not.
ShowBare(es, p, t) ==
    /\ active' = t /\ entries' = es /\ pos' = p
    /\ visited' = (visited \/ t = Vnc)

Show(es, p, t) ==
    /\ active' = t
    /\ entries' = IF t = Vnc /\ active # Vnc THEN [es EXCEPT ![p] = Written(@, Vnc, target)] ELSE es
    /\ pos' = p
    /\ visited' = (visited \/ t = Vnc)

-----------------------------------------------------------------------------
\* The page is loaded at entry p of es: a tab other than home gets a home
\* entry slipped in underneath, except inside code-server.
Slipped(es, p) ==
    LET e == es[p] IN
    IF embed \/ e.at = Home \/ e.mark THEN es
    ELSE Append(SubSeq(es, 1, p - 1) \o <<Entry(Home, FALSE, {})>>, [e EXCEPT !.mark = TRUE])

Asked(e, t) == IF \E v \in Value : <<t, v>> \in e.query
               THEN CHOOSE v \in Value : <<t, v>> \in e.query ELSE None

Loaded(es, p) ==
    LET e == es[p]
        here == Slipped(es, p)
    IN [entries |-> here, pos |-> IF here = es THEN p ELSE p + 1, active |-> e.at, visited |-> e.at = Vnc,
        target |-> IF e.at = Vnc THEN Asked(e, Vnc) ELSE None,
        pending |-> [t \in Carry |-> IF e.at = t THEN Asked(e, t) ELSE None]]

\* A bookmark, a shortcut, or the address alone.
Init ==
    /\ embed \in BOOLEAN /\ locked \in BOOLEAN /\ going = 0
    /\ \E t \in Tab, v \in Value \cup {None} :
          LET page == Loaded(<<Entry(t, FALSE, IF t \in Carry \cup {Vnc} THEN Query(t, v) ELSE {})>>, 1)
          IN /\ entries = page.entries /\ pos = page.pos /\ active = page.active
             /\ visited = page.visited /\ target = page.target /\ pending = page.pending

LoadedAt(p) ==
    /\ LET page == Loaded(entries, p)
       IN /\ entries' = page.entries /\ pos' = page.pos /\ active' = page.active
          /\ visited' = page.visited /\ target' = page.target /\ pending' = page.pending
    /\ UNCHANGED <<embed, locked>>

\* What was on its way back may still land, or not.
Reload == going' \in {0, going} /\ LoadedAt(pos)

-----------------------------------------------------------------------------
\* setActive.  Where the first click on home has not landed, another goes back
\* once more.
\* Fault: home is put on top of the entry it is also below.
SetActiveStacked(id) ==
    LET here == entries[pos] IN
    /\ going' = going
    /\ CASE id = here.at -> Show(entries, pos, id)
         [] id # here.at /\ (id = Home \/ here.at # Home) ->
               Show([entries EXCEPT ![pos] = Entry(id, here.mark, {})], pos, id)
         [] id # here.at /\ id # Home /\ here.at = Home ->
               Show(Append(SubSeq(entries, 1, pos), Entry(id, TRUE, {})), pos + 1, id)

SetActive(id) ==
    LET here == entries[pos]
        back == id = Home /\ here.at # Home /\ here.mark
    IN
    /\ going' = going + (IF back THEN 1 ELSE 0) /\ going' <= MaxBacks
    /\ CASE id = here.at \/ back -> Show(entries, pos, id)
         [] id # here.at /\ id = Home /\ ~back -> Show([entries EXCEPT ![pos] = Entry(Home, FALSE, {})], pos, Home)
         [] id # here.at /\ id # Home /\ here.at = Home ->
               Show(Append(SubSeq(entries, 1, pos), Entry(id, TRUE, {})), pos + 1, id)
         [] id # here.at /\ id # Home /\ here.at # Home ->
               Show([entries EXCEPT ![pos] = Entry(id, here.mark, {})], pos, id)

\* The sidebar.
Select(id) ==
    /\ ~embed /\ SetActive(id)
    /\ UNCHANGED <<embed, pending, target, locked>>

\* openInTerminal, openTerminalSession, openInFileManager, openProject and the
\* dialogs' buttons.
OpenIn(t, v) ==
    /\ ~(embed /\ t \in Posted) /\ SetActive(t)
    /\ pending' = [pending EXCEPT ![t] = v]
    /\ UNCHANGED <<embed, target, locked>>

\* The tab, once it is there, opens it, and says so.
Consume(t) ==
    /\ Mounted(t) /\ pending[t] # None
    /\ pending' = [pending EXCEPT ![t] = None]
    /\ entries' = [entries EXCEPT ![pos] = Written(@, t, pending[t])]
    /\ UNCHANGED <<embed, pos, going, active, visited, target, locked>>

\* handleActiveSessionChange, handleFilesPathChange, handleSelectedProjectChange.
PageReports(t, v) ==
    /\ Mounted(t) /\ pending[t] = None
    /\ entries' = [entries EXCEPT ![pos] = Written(@, t, v)]
    /\ UNCHANGED <<embed, pos, going, active, content, locked>>

\* handleVncMessage, of the frame that stays mounted.
\* Fault: whatever tab shows.
VncMessageAlways(v) ==
    /\ visited /\ target' = v
    /\ entries' = [entries EXCEPT ![pos] = Written(@, Vnc, v)]
    /\ UNCHANGED <<embed, pos, going, active, pending, visited, locked>>

VncMessage(v) ==
    /\ visited /\ target' = v
    /\ entries' = IF active = Vnc THEN [entries EXCEPT ![pos] = Written(@, Vnc, v)] ELSE entries
    /\ UNCHANGED <<embed, pos, going, active, pending, visited, locked>>

\* onPopState: the browser's buttons, and history.back() landing.
Traverse(p) ==
    /\ Show(entries, p, entries[p].at)
    /\ UNCHANGED <<embed, pending, target, locked>>

\* Back from the first entry leaves the app, and the browser's buttons come back
\* to it; or there is nothing to go back to.
BackFrom(p) ==
    \/ p > 1 /\ Traverse(p - 1)
    \/ p = 1 /\ UNCHANGED <<embed, entries, pos, active, content, locked>>
    \/ p = 1 /\ LoadedAt(1)

BackLands == going > 0 /\ going' = going - 1 /\ BackFrom(pos)
Back == UNCHANGED going /\ BackFrom(pos)
Forward == UNCHANGED going /\ pos < Len(entries) /\ Traverse(pos + 1)

\* The gate locks, or is unlocked here or in another window.
GateTurns ==
    /\ locked' = ~locked
    /\ UNCHANGED <<embed, address, active, content>>

Next ==
    \/ \E id \in Tab : Select(id)
    \/ \E t \in Carry, v \in Value : OpenIn(t, v)
    \/ \E t \in Carry : Consume(t)
    \/ \E t \in Carry, v \in Value \cup {None} : PageReports(t, v)
    \/ \E v \in Value \cup {None} : VncMessage(v)
    \/ Reload \/ BackLands \/ Back \/ Forward \/ GateTurns

Spec == Init /\ [][Next]_vars

-----------------------------------------------------------------------------
\* An entry of the history.
Page == [at : Tab, mark : BOOLEAN, query : SUBSET (Tab \X Value)]

\* Types of the variables.
TypeOK ==
    /\ embed \in BOOLEAN /\ going \in Nat /\ locked \in BOOLEAN /\ visited \in BOOLEAN
    /\ entries \in Seq(Page) /\ pos \in 1..Len(entries) /\ active \in Tab
    /\ pending \in [Carry -> Value \cup {None}] /\ target \in Value \cup {None}

\* The comment on HOME: history never holds more than home and the current
\* tab, and a tab marked as having home below has; what the address says is
\* shown, and its query is that tab's, with the target that VNC shows.
HistoryIsFlat ==
    /\ Len(entries) <= 2
    /\ \A i \in 1..Len(entries) : entries[i].mark = (i = 2)
    /\ Len(entries) > 1 => entries[1].at = Home /\ entries[2].at # Home
    /\ ~embed => entries[1].at = Home

OwnQuery(e) ==
    /\ \A x \in e.query : x[1] = e.at
    /\ e.at = Vnc => \E v \in Value \cup {None} : e.query = Query(Vnc, v)

AddressIsShown ==
    /\ (going > 0 /\ pos = 2 /\ active = Home) \/ entries[pos].at = active
    /\ \A i \in 1..Len(entries) : OwnQuery(entries[i])
    /\ active = Vnc => entries[pos].query = Query(Vnc, target)

IndInv == TypeOK /\ HistoryIsFlat /\ AddressIsShown
=============================================================================
