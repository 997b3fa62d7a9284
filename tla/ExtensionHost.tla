------------------------------ MODULE ExtensionHost ------------------------------
(***************************************************************************)
(* webmanager's views inside code-server (src/webmanager/vscode-extension): *)
(* editor tabs and slots of the bottom panel, each a webview whose page     *)
(* shows a terminal session, a VNC target or something else.  The extension *)
(* keeps what each view shows (host.state), binds the slots to it over      *)
(* reloads of the window, and recognizes the tabs that a reload left        *)
(* unresolved by their titles.                                             *)
(*                                                                         *)
(* A command is a step, its pickers answered; the reports that pages send   *)
(* of what they show arrive later, in order.                               *)
(***************************************************************************)
EXTENDS Naturals, Sequences

CONSTANTS
    Panel, Slot,   \* editor tabs, and the ids of slots
    First,         \* term1, the slot that also shows unbound
    Thing, Home,   \* sessions and VNC targets, and a page without identity
    None,
    Title,         \* titleOf: Thing and Home to titles
    MaxReports     \* a bound on the reports of a page that are on their way

VARIABLES
    host,      \* hosts and slotHosts: host.state of each view, or None without one
    page,      \* what the page in a view shows
    reports,   \* the `state` messages of a view's page that are on their way
    closed,    \* host.closedState
    binding,   \* webmanager.slots
    titles,    \* webmanager.panelTitles
    tab,       \* editor tabs that a reload left unresolved: their saved state, or None
    overtaken  \* history: a command has taken a view for what it no longer showed, as
               \* the report of that was on its way, or a new session has a name that
               \* another view was for

views == <<host, page, reports, closed>>
stored == <<binding, titles, tab>>
vars == <<views, stored, overtaken>>

View == Panel \cup Slot
State == Thing \cup {Home}
Open(v) == host[v] # None
Record(s) == <<s, Title[s]>>

Init ==
    /\ host = [v \in View |-> None] /\ page = [v \in View |-> None]
    /\ reports = [v \in View |-> <<>>] /\ closed = [s \in Slot |-> None]
    /\ binding = [s \in Slot |-> None] /\ titles = {}
    /\ tab = [p \in Panel |-> None] /\ overtaken = FALSE

-----------------------------------------------------------------------------
\* A slot that is about to lose its view.
Leaving(x) == Open(x) /\ closed[x] # None /\ x # First

\* What a view is for: what its page shows, unless it is about to go, or what it
\* is going to show when it is resolved.
Claim(v) ==
    IF Open(v) THEN (IF v \in Slot /\ Leaving(v) THEN None ELSE page[v])
    ELSE IF v \in Slot THEN binding[v] ELSE None

Taken(i, v) == \E w \in View \ {v} : Claim(w) = i

\* A page has gone to show i, and its report of that is on its way.
Unsaid(i, v) == i # Home /\ \E w \in View \ {v} : page[w] = i /\ host[w] # i

\* findHostFor: the views that show a thing, or will once they are resolved.
FindHostFor(i, except) ==
    IF i = Home THEN {}
    ELSE {v \in View \ {except} : host[v] = i} \cup {s \in Slot \ {except} : ~Open(s) /\ binding[s] = i}

\* unresolvedTabsFor: the unresolved tabs that can only be this thing's.
UnresolvedTabsFor(i) ==
    IF \/ \E p \in Panel : Open(p) /\ Title[host[p]] = Title[i]
       \/ {e \in titles : e[2] = Title[i]} # {Record(i)}
    THEN {}
    ELSE {p \in Panel : tab[p] # None /\ Title[tab[p]] = Title[i]}

\* forgetTitle, of p in a set of records: not while another panel shows it.
Forgotten(ts, p) ==
    IF \E q \in Panel \ {p} : Open(q) /\ Record(host[q]) = Record(host[p]) THEN ts
    ELSE ts \ {Record(host[p])}

\* host.state becomes s: updateTitle, and recordTitle for a panel.
Retitled(v, s) ==
    /\ host' = [host EXCEPT ![v] = s]
    /\ titles' = IF v \in Slot \/ (Open(v) /\ host[v] = s) THEN titles
                 ELSE (IF Open(v) THEN Forgotten(titles, v) ELSE titles) \cup {Record(s)}

\* attach: a new view, its page about to report what it shows.
Attach(v, s) ==
    /\ Retitled(v, s)
    /\ page' = [page EXCEPT ![v] = s]
    /\ reports' = [reports EXCEPT ![v] = <<s>>]

\* reportEmbedState: the page says what it shows.
Reported(v, s) == [reports EXCEPT ![v] = Append(@, s)]

\* navigateHost: the page is replaced; what the old one sent still arrives.
NavigateHost(v, s) ==
    /\ Retitled(v, s)
    /\ page' = [page EXCEPT ![v] = s]
    /\ reports' = Reported(v, s)

CanNavigate(v) == Len(reports[v]) < MaxReports

\* A report that says otherwise than host.state is on its way.
Behind(v) == \E k \in DOMAIN reports[v] : reports[v][k] # host[v]

\* A panel is disposed, or a slot's view: detach and what goes with it.
Detached(v) ==
    /\ host' = [host EXCEPT ![v] = None] /\ page' = [page EXCEPT ![v] = None]
    /\ reports' = [reports EXCEPT ![v] = <<>>]
    /\ titles' = IF v \in Panel THEN Forgotten(titles, v) ELSE titles

-----------------------------------------------------------------------------
\* A `state` report arrives.
Report(v) ==
    /\ reports[v] # <<>>
    /\ LET s == Head(reports[v])
           late == v \in Slot /\ closed[v] # None /\ closed[v] = s
       IN /\ reports' = [reports EXCEPT ![v] = Tail(@)]
          /\ IF late THEN UNCHANGED <<host, titles, closed, binding>>
             ELSE /\ Retitled(v, s)
                  /\ closed' = IF v \in Slot THEN [closed EXCEPT ![v] = None] ELSE closed
                  /\ binding' = IF v \in Slot /\ s # Home THEN [binding EXCEPT ![v] = s] ELSE binding
    /\ UNCHANGED <<page, tab, overtaken>>

\* The session shown was renamed, or the user went elsewhere inside the page:
\* to a name that the page's list of sessions does not have.
PageMoves(v, i) ==
    /\ Open(v) /\ page[v] # i /\ CanNavigate(v)
    /\ page' = [page EXCEPT ![v] = i]
    /\ reports' = Reported(v, i)
    /\ overtaken' = (overtaken \/ v \in {s \in Slot : closed[s] # None} \/ Taken(i, v))
    /\ UNCHANGED <<host, closed, stored>>

-----------------------------------------------------------------------------
\* What the pickers may answer: a session or target, or any of the tabs.
PickSession == Thing
PickSection == State

\* createPanel, after what stands in its way has been closed.
CreatePanel(s, stale) ==
    \E p \in Panel :
        /\ ~Open(p) /\ (tab[p] = None \/ p \in stale)
        /\ Attach(p, s)
        /\ tab' = [q \in Panel |-> IF q \in stale THEN None ELSE tab[q]]

\* openState, when nothing in the window shows it yet.
OpenState(s) ==
    /\ FindHostFor(s, None) = {}
    /\ CreatePanel(s, IF s = Home THEN {} ELSE UnresolvedTabsFor(s))
    /\ overtaken' = (overtaken \/ Unsaid(s, None))
    /\ UNCHANGED <<closed, binding>>

\* bindSlot, for the slot's view that is there or not yet.
BindSlot(x, s) ==
    /\ binding' = [binding EXCEPT ![x] = s]
    /\ IF Open(x)
       THEN CanNavigate(x) /\ NavigateHost(x, s) /\ closed' = [closed EXCEPT ![x] = None]
       ELSE Attach(x, s) /\ UNCHANGED closed

\* pickSlot: a slot that is free, or any when none is.
PickSlot == IF \E x \in Slot : binding[x] = None THEN {x \in Slot : binding[x] = None} ELSE Slot

OpenStateInPanel(i) ==
    /\ FindHostFor(i, None) = {}
    /\ \E x \in PickSlot : BindSlot(x, i)
    /\ overtaken' = (overtaken \/ Unsaid(i, None))
    /\ UNCHANGED tab

\* newTerminalInPanel and openFromExplorer: a new session in a slot, its name one
\* that the backend's list of sessions does not have, or any without that list.
NewTerminalInPanel(i) ==
    /\ \E x \in PickSlot : BindSlot(x, i) /\ overtaken' = (overtaken \/ Taken(i, x))
    /\ UNCHANGED tab

\* revealHost of a slot that is not resolved, or the user opens the panel.
ResolveSlot(x) ==
    /\ ~Open(x) /\ (binding[x] # None \/ x = First)
    /\ Attach(x, IF binding[x] = None THEN Home ELSE binding[x])
    /\ UNCHANGED <<closed, binding, tab, overtaken>>

\* changeSession and switchTab: another thing in the same view.
ChangeSession(v, i) ==
    /\ Open(v) /\ FindHostFor(i, v) = {} /\ CanNavigate(v)
    /\ IF v \in Slot THEN BindSlot(v, i) ELSE NavigateHost(v, i) /\ UNCHANGED <<closed, binding>>
    /\ overtaken' = (overtaken \/ Unsaid(i, v))
    /\ UNCHANGED tab

\* openSessionInView: a session picked from the Home a view shows, whose message
\* comes after what that has reported.
OpenSessionInView(v, i) ==
    /\ Open(v) /\ page[v] = Home /\ reports[v] = <<>> /\ FindHostFor(i, v) = {}
    /\ page' = [page EXCEPT ![v] = i]
    /\ reports' = Reported(v, i)
    /\ tab' = [p \in Panel |-> IF p \in UnresolvedTabsFor(i) THEN None ELSE tab[p]]
    /\ overtaken' = (overtaken \/ Unsaid(i, v))
    /\ UNCHANGED <<host, closed, binding, titles>>

\* newSessionInView: "+" inside a view, also after what that has reported.
NewSessionInView(v, i) ==
    /\ Open(v) /\ reports[v] = <<>> /\ (v \in Slot => closed[v] = None)
    /\ NavigateHost(v, i)
    /\ overtaken' = (overtaken \/ Taken(i, v))
    /\ UNCHANGED <<closed, binding, tab>>

\* reload.
Reload(v) ==
    /\ Open(v) /\ CanNavigate(v)
    /\ NavigateHost(v, host[v])
    /\ overtaken' = (overtaken \/ Behind(v))
    /\ UNCHANGED <<closed, stored>>

-----------------------------------------------------------------------------
\* Fault: reports of the page it closes still count.
CloseSlotOpen(x) ==
    /\ binding' = [binding EXCEPT ![x] = None]
    /\ closed' = closed
    /\ overtaken' = (overtaken \/ Behind(x))
    /\ IF Open(x) /\ x = First THEN NavigateHost(x, Home)
       ELSE UNCHANGED <<host, page, reports, titles>>

\* closeSlot: the slot is unbound; term1 goes on with Home, the view of
\* another slot is taken away.
CloseSlot(x) ==
    /\ binding' = [binding EXCEPT ![x] = None]
    /\ closed' = IF Open(x) THEN [closed EXCEPT ![x] = host[x]] ELSE closed
    /\ overtaken' = (overtaken \/ Behind(x))
    /\ IF Open(x) /\ x = First THEN NavigateHost(x, Home)
       ELSE UNCHANGED <<host, page, reports, titles>>

CloseView(v) ==
    /\ Open(v)
    /\ IF v \in Panel THEN Detached(v) /\ UNCHANGED <<closed, binding, overtaken>>
       ELSE binding[v] # None /\ CloseSlot(v)
    /\ UNCHANGED tab

\* The view of a slot that is not bound goes.
SlotGoes(x) ==
    /\ Leaving(x)
    /\ Detached(x) /\ closed' = [closed EXCEPT ![x] = None]
    /\ UNCHANGED <<binding, tab, overtaken>>

\* A tab that was never shown since the reload is closed.
CloseTab(p) ==
    /\ tab[p] # None
    /\ tab' = [tab EXCEPT ![p] = None]
    /\ UNCHANGED <<views, binding, titles, overtaken>>

\* moveToEditor: the slot is closed, and a panel created for what it showed.
MoveToEditor(x) ==
    /\ Open(x) /\ ~Leaving(x) /\ binding[x] # None
    /\ \E p \in Panel :
          /\ ~Open(p) /\ tab[p] = None
          /\ binding' = [binding EXCEPT ![x] = None]
          /\ closed' = [closed EXCEPT ![x] = host[x]]
          /\ host' = [host EXCEPT ![p] = host[x], ![x] = IF x = First THEN Home ELSE @]
          /\ page' = [page EXCEPT ![p] = host[x], ![x] = IF x = First THEN Home ELSE @]
          /\ reports' = [reports EXCEPT ![p] = <<host[x]>>, ![x] = IF x = First THEN Append(@, Home) ELSE @]
          /\ titles' = titles \cup {Record(host[x])}
    /\ overtaken' = (overtaken \/ Behind(x))
    /\ UNCHANGED tab

\* moveToPanel: the tab is disposed of, and a slot bound to what it showed.
MoveToPanel(p) ==
    /\ Open(p) /\ host[p] # Home
    /\ \E x \in PickSlot :
          /\ CanNavigate(x)
          /\ binding' = [binding EXCEPT ![x] = host[p]]
          /\ closed' = [closed EXCEPT ![x] = None]
          /\ host' = [host EXCEPT ![x] = host[p], ![p] = None]
          /\ page' = [page EXCEPT ![x] = host[p], ![p] = None]
          /\ reports' = [reports EXCEPT ![x] = Append(@, host[p]), ![p] = <<>>]
          /\ titles' = Forgotten(titles, p)
    /\ overtaken' = (overtaken \/ Behind(p))
    /\ UNCHANGED tab

-----------------------------------------------------------------------------
\* The user reloads the window, with nothing on its way: pages and hosts are
\* gone, tabs come back, also ones closed just before, and activate drops the
\* titles that no tab carries.
ReloadWindow ==
    /\ \A v \in View : reports[v] = <<>>
    /\ tab' = [p \in Panel |-> IF Open(p) THEN host[p] ELSE tab[p]]
    /\ titles' = {e \in titles : \E p \in Panel : tab'[p] # None /\ Title[tab'[p]] = e[2]}
    /\ host' = [v \in View |-> None] /\ page' = [v \in View |-> None]
    /\ reports' = [v \in View |-> <<>>] /\ closed' = [s \in Slot |-> None]
    /\ UNCHANGED <<binding, overtaken>>

\* Fault: restored as it is.
RestoreTabAnyway(p) ==
    /\ ~Open(p) /\ tab[p] # None /\ tab' = [tab EXCEPT ![p] = None]
    /\ Attach(p, tab[p])
    /\ UNCHANGED <<closed, binding, overtaken>>

\* deserializeWebviewPanel: a tab is shown for the first time since.
RestoreTab(p) ==
    /\ ~Open(p) /\ tab[p] # None /\ tab' = [tab EXCEPT ![p] = None]
    /\ IF FindHostFor(tab[p], None) # {} THEN UNCHANGED <<host, page, reports, titles, overtaken>>
       ELSE Attach(p, tab[p]) /\ overtaken' = (overtaken \/ Unsaid(tab[p], p))
    /\ UNCHANGED <<closed, binding>>

-----------------------------------------------------------------------------
\* A window in which a command has overtaken a report, or given a name twice, is
\* not followed further.
Next ==
    /\ ~overtaken
    /\ \/ \E v \in View : Report(v) \/ Reload(v) \/ CloseView(v)
       \/ \E v \in View, i \in PickSession : PageMoves(v, i) \/ ChangeSession(v, i) \/ OpenSessionInView(v, i) \/ NewSessionInView(v, i)
       \/ \E s \in PickSection : OpenState(s)
       \/ \E i \in PickSession : OpenStateInPanel(i) \/ NewTerminalInPanel(i)
       \/ \E x \in Slot : SlotGoes(x) \/ ResolveSlot(x) \/ MoveToEditor(x)
       \/ \E p \in Panel : CloseTab(p) \/ MoveToPanel(p) \/ RestoreTab(p)
       \/ ReloadWindow

Spec == Init /\ [][Next]_vars

-----------------------------------------------------------------------------
\* Types of the variables.
TypeOK ==
    /\ host \in [View -> State \cup {None}] /\ page \in [View -> State \cup {None}]
    /\ \A v \in View : reports[v] \in Seq(State) /\ Len(reports[v]) <= MaxReports + 1
    /\ closed \in [Slot -> State \cup {None}] /\ binding \in [Slot -> Thing \cup {None}]
    /\ titles \subseteq State \X {Title[s] : s \in State}
    /\ tab \in [Panel -> State \cup {None}] /\ overtaken \in BOOLEAN

\* Nothing is on its way, and no slot is about to lose its view.
Quiet == (\A v \in View : reports[v] = <<>>) /\ (\A x \in Slot : ~Leaving(x))

\* The comment on identityOf: a session or VNC target is shown once per
\* window.  Counted are the pages that are there once nothing is on its way,
\* in a window in which no command overtook a report: an opening does not find
\* what a page has gone to and not yet said, and a reload, a move or a close takes
\* that page for what it was; and in which no new session got a name that another
\* view was for: "+" and the explorer's menu look only at the backend's list.
ShownOnce ==
    Quiet /\ ~overtaken => \A v, w \in View : v # w /\ page[v] \in Thing => page[v] # page[w]

\* What a reload will bring back is what the slot shows: a report that was on
\* its way when a slot was closed, moved or bound again does not bind it anew,
\* but for one of another page than the one that was closed.
BindingIsShown ==
    Quiet /\ ~overtaken => \A x \in Slot : Open(x) => page[x] = host[x] /\ binding[x] = IF page[x] = Home THEN None ELSE page[x]

\* Inductive, while no command has overtaken a report: what a page said last is
\* what it shows.
SaidLast(v) ==
    IF Open(v)
    THEN /\ page[v] \in State
         /\ IF reports[v] = <<>> THEN host[v] = page[v] ELSE reports[v][Len(reports[v])] = page[v]
    ELSE page[v] = None /\ reports[v] = <<>>

\* The reports that a slot's view ignores are those of the thing it was closed
\* with, and what is to be seen after them is bound, or Home and not bound.
SlotIsSound(x) ==
    /\ ~Open(x) => closed[x] = None
    /\ Leaving(x) =>
        /\ page[x] = closed[x] /\ host[x] = closed[x] /\ closed[x] # Home /\ binding[x] = None
        /\ \A k \in DOMAIN reports[x] : reports[x][k] = closed[x]
    /\ ~Leaving(x) /\ closed[x] # None => closed[x] # Home /\ page[x] = Home /\ reports[x] # <<>>
    /\ Open(x) /\ ~Leaving(x) /\ reports[x] = <<>> /\ page[x] # Home => binding[x] = page[x]
    /\ Open(x) /\ page[x] = Home =>
        /\ host[x] = Home /\ binding[x] = None
        /\ \A k \in DOMAIN reports[x] : reports[x][k] # Home =>
               reports[x][k] = closed[x] /\ \A j \in 1..k : reports[x][j] # Home

ClaimedOnce == \A v, w \in View : v # w /\ Claim(v) \in Thing => Claim(v) # Claim(w)

StateOK ==
    /\ host \in [View -> State \cup {None}] /\ page \in [View -> State \cup {None}]
    /\ reports \in [View -> Seq(State)]
    /\ closed \in [Slot -> State \cup {None}] /\ binding \in [Slot -> Thing \cup {None}]

Sound == StateOK /\ (\A v \in View : SaidLast(v)) /\ (\A x \in Slot : SlotIsSound(x)) /\ ClaimedOnce

IndInv == overtaken \in BOOLEAN /\ tab \in [Panel -> State \cup {None}] /\ (~overtaken => Sound)
=============================================================================
