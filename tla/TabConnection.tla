------------------------------ MODULE TabConnection ------------------------------
(***************************************************************************)
(* The Terminal tab's connection (components/Terminal/Terminal.tsx below    *)
(* src/webmanager/frontend/src): which session the tab shows, the WebSocket *)
(* to it, what the page does when that closes, and the session list that    *)
(* it reads every few seconds.  The backend is as simple as the page can    *)
(* tell: a handshake attaches to the session of its name or creates it.     *)
(* Automatic reconnection, a setting of the device, is on as it is by       *)
(* default.                                                                 *)
(*                                                                         *)
(* A step of the page runs up to its next await, with the effects its state *)
(* changes trigger; a request is answered in one step and its answer is     *)
(* read in another, the gate's state included.                              *)
(***************************************************************************)
EXTENDS Naturals, FiniteSets

CONSTANTS
    Name, Home,   \* session names, and HOME_TAB_ID
    MaxSessions,  \* a bound on the sessions that are ever created
    MaxDrops,     \* a bound on the failures of the network
    MaxChains     \* a bound on the closed sockets being looked into

ASSUME TabAssumption == Home \notin Name /\ MaxSessions \in Nat /\ MaxDrops \in Nat /\ MaxChains \in Nat

VARIABLES
    \* the backend
    live,      \* the session of each name: its number, or 0
    born,      \* how many sessions there have been
    locked,    \* the password gate is locked
    drops,     \* how often the network has failed
    \* the page
    embedded,  \* it is a view of code-server: embedSession is given
    active,    \* activeSession, and activeSessionRef after its effect
    held,      \* fontReady or embedResolving still hold the first connect back
    sock,      \* wsRef's socket: where it is, and its session's number
    state,     \* the ConnectionState shown
    timer,     \* reconnectTimerRef is set
    pending,   \* pendingReconnect is shown
    lockedOut, ended,
    seen,      \* the last session list: sessions and lastSessionsRef
    chains,    \* what is left to do of each ws.onclose
    op,        \* the rename or the close of the tab's session that is about to be answered
    asked,     \* history: names the user asked to open or saw in a list
    missed     \* history: the page was locked out when the gate was open already

backend == <<live, born, locked, drops>>
shown == <<embedded, active, held>>
link == <<sock, state, timer, pending>>
page == <<seen, chains, op>>
vars == <<backend, shown, link, lockedOut, ended, page, asked, missed>>

NoSock == [at |-> "none", id |-> 0]
NoList == [n \in Name |-> 0]
NoOp == [kind |-> "none"]
Listed(n) == live[n] # 0

\* ensureActiveIncluded: the tab bar has the sessions of the list and the one
\* that is shown.
Tabs == {n \in Name : seen[n] # 0} \cup ({active} \ {Home})

Init ==
    /\ embedded \in BOOLEAN
    /\ born \in {0, 1} /\ live \in [Name -> 0 .. 1]
    /\ Cardinality({n \in Name : Listed(n)}) = born
    /\ locked = FALSE /\ drops = 0
    /\ active \in IF embedded THEN Name ELSE {Home}
    /\ held = TRUE /\ sock = NoSock /\ state = "connecting"
    /\ timer = FALSE /\ pending = FALSE
    /\ lockedOut = FALSE /\ ended = FALSE
    /\ seen = NoList /\ chains = {} /\ op = NoOp
    /\ asked = IF embedded THEN {active} ELSE {}
    /\ missed = FALSE

-----------------------------------------------------------------------------
\* Fault: what announces the retry stays when the timer is cleared.
ConnectUnlessAnnounced(n, hold) ==
    /\ active' = n
    /\ timer' = FALSE
    /\ IF n = Home \/ hold
       THEN sock' = NoSock /\ UNCHANGED <<state, pending>>
       ELSE sock' = [at |-> "connecting", id |-> 0] /\ state' = "connecting" /\ UNCHANGED pending

\* The connect effect runs for n: the old socket is closed, a timer cleared,
\* and unless something holds it back a new socket begins its handshake.
ConnectUnless(n, hold) ==
    /\ active' = n
    /\ timer' = FALSE /\ pending' = FALSE
    /\ IF n = Home \/ hold
       THEN sock' = NoSock /\ UNCHANGED state
       ELSE sock' = [at |-> "connecting", id |-> 0] /\ state' = "connecting"

Connect(n) == ConnectUnless(n, held)

\* setActiveSession(n): the same value changes nothing.
SetActive(n) ==
    IF n = active THEN UNCHANGED <<active, sock, state, timer, pending>> ELSE Connect(n)

\* Fault: without looking at lockedOutRef.
ScheduleLocked ==
    IF active = Home \/ timer
    THEN UNCHANGED <<timer, pending>>
    ELSE timer' = TRUE /\ pending' = TRUE

\* scheduleReconnect.
Schedule ==
    IF active = Home \/ lockedOut \/ timer
    THEN UNCHANGED <<timer, pending>>
    ELSE timer' = TRUE /\ pending' = TRUE

\* reconnect().
Reconnect ==
    /\ lockedOut' = FALSE /\ missed' = FALSE
    /\ Connect(active)
    /\ UNCHANGED held

\* What refreshSessions does with a list: the session shown may have been
\* renamed elsewhere, which its pid tells.
Moved(list) == {n \in Name : active # Home /\ list[active] = 0 /\ seen[active] # 0 /\ list[n] = seen[active]}

Follow(list) ==
    /\ seen' = list /\ asked' = asked \cup {n \in Name : list[n] # 0}
    /\ IF Moved(list) = {} THEN UNCHANGED <<active, sock, state, timer, pending>>
       ELSE \E n \in Moved(list) : Connect(n)

-----------------------------------------------------------------------------
\* The page is ready to connect: the font is there or late, and a restored
\* view has looked for its session by embedCreated, or could not.
Ready ==
    /\ held /\ held' = FALSE
    /\ \/ ConnectUnless(active, FALSE)
       \/ /\ embedded /\ live[active] = 0 /\ ~locked
          /\ \E n \in {n \in Name : Listed(n)} : ConnectUnless(n, FALSE)
    /\ asked' = asked \cup ({active'} \ {Home})
    /\ UNCHANGED <<backend, embedded, lockedOut, ended, page, missed>>

\* Fault: taken as it is.
RestoreUnchecked(n) ==
    /\ ~embedded /\ active = Home
    /\ SetActive(n)
    /\ UNCHANGED <<backend, embedded, held, lockedOut, ended, page, asked, missed>>

\* ?session=n in the URL: taken only when the list has it, then or later.
Restore(n) ==
    /\ ~embedded /\ active = Home
    /\ Listed(n) /\ ~locked
    /\ SetActive(n)
    /\ asked' = asked \cup {n}
    /\ UNCHANGED <<backend, embedded, held, lockedOut, ended, page, missed>>

\* selectSession, from the tab bar or Home; embedded, the extension answers it.
Select(n) ==
    /\ seen[n] # 0 /\ (embedded => active = Home)
    /\ SetActive(n)
    /\ UNCHANGED <<backend, embedded, held, lockedOut, ended, page, asked, missed>>

SelectHome ==
    /\ ~embedded /\ active # Home
    /\ SetActive(Home)
    /\ UNCHANGED <<backend, embedded, held, lockedOut, ended, page, asked, missed>>

\* addSession: nextSessionName avoids the names of the list and the tab's own.
Add(n) ==
    /\ seen[n] = 0 /\ n # active /\ (embedded => active = Home)
    /\ SetActive(n)
    /\ asked' = asked \cup {n}
    /\ UNCHANGED <<backend, embedded, held, lockedOut, ended, page, missed>>

-----------------------------------------------------------------------------
\* The handshake reaches the backend: a locked gate refuses it, else the
\* session of that name is attached, or created.
Handshake ==
    /\ sock.at = "connecting"
    /\ IF locked THEN sock' = [at |-> "shut", id |-> 0] /\ UNCHANGED <<live, born>>
       ELSE IF Listed(active)
       THEN sock' = [at |-> "served", id |-> live[active]] /\ UNCHANGED <<live, born>>
       ELSE /\ born < MaxSessions
            /\ live' = [live EXCEPT ![active] = born + 1] /\ born' = born + 1
            /\ sock' = [at |-> "served", id |-> born + 1]
    /\ UNCHANGED <<locked, drops, shown, state, timer, pending, lockedOut, ended, page, asked, missed>>

\* ws.onopen: connected, the backoff starts over, the list is read again.
Opened ==
    /\ sock.at = "served"
    /\ sock' = [sock EXCEPT !.at = "open"] /\ state' = "connected"
    /\ pending' = FALSE
    /\ UNCHANGED <<backend, shown, timer, lockedOut, ended, seen, chains, op, asked, missed>>

\* The network drops the connection, or the handshake.
Drop ==
    /\ sock.at \in {"connecting", "served", "open"} /\ drops < MaxDrops
    /\ drops' = drops + 1
    /\ sock' = [sock EXCEPT !.at = "shut"]
    /\ UNCHANGED <<live, born, locked, shown, state, timer, pending, lockedOut, ended, page, asked, missed>>

\* A shell exits; a client that is attached is told so with status 1000.
Exits(n) ==
    /\ Listed(n)
    /\ live' = [live EXCEPT ![n] = 0]
    /\ sock' = IF sock.at \in {"served", "open"} /\ sock.id = live[n]
               THEN [sock EXCEPT !.at = "over"] ELSE sock
    /\ UNCHANGED <<born, locked, drops, shown, state, timer, pending, lockedOut, ended, page, asked, missed>>

\* ws.onclose, of the current socket only: gateLocked is asked and answered; a
\* question that fails counts as an open gate.
Closed ==
    /\ sock.at \in {"shut", "over"} /\ Cardinality(chains) < MaxChains
    /\ state' = "disconnected"
    /\ \E failed \in BOOLEAN :
          /\ failed => drops < MaxDrops
          /\ drops' = IF failed THEN drops + 1 ELSE drops
          /\ chains' = chains \cup {[name |-> active, over |-> sock.at = "over",
                                    at |-> IF locked /\ ~failed THEN "locked" ELSE "open", list |-> NoList]}
    /\ sock' = NoSock
    /\ UNCHANGED <<live, born, locked, shown, timer, pending, lockedOut, ended, seen, op, asked, missed>>

\* The answer was that it is locked, which it may be no more: nothing is retried
\* until the page is told of an opening.
ChainLocked(c) ==
    /\ c.at = "locked"
    /\ chains' = chains \ {c}
    /\ IF c.name # active THEN UNCHANGED <<timer, pending, lockedOut, missed>>
       ELSE /\ timer' = FALSE /\ pending' = FALSE /\ lockedOut' = TRUE
            /\ missed' = (missed \/ ~locked)
    /\ UNCHANGED <<backend, shown, sock, state, ended, seen, op, asked>>

\* It was not, and the list is read.
ChainListed(c) ==
    /\ c.at = "open" /\ ~locked
    /\ chains' = (chains \ {c}) \cup {[c EXCEPT !.at = "listed", !.list = live]}
    /\ UNCHANGED <<backend, shown, link, lockedOut, ended, seen, op, asked, missed>>

\* What ws.onclose does at its end, the list being known or not: an embedded
\* view says that its session is over, a tab of a session that is gone falls
\* back to Home, and otherwise a retry is scheduled.
Settle(c, known, gone) ==
    IF c.name # active THEN UNCHANGED <<shown, link, ended>>
    ELSE IF embedded /\ c.over /\ (~known \/ gone)
    THEN ended' = TRUE /\ UNCHANGED <<shown, link>>
    ELSE IF ~embedded /\ known /\ gone
    THEN Connect(Home) /\ UNCHANGED <<embedded, held, ended>>
    ELSE Schedule /\ UNCHANGED <<shown, sock, state, ended>>

ChainDone(c) ==
    /\ c.at = "listed"
    /\ chains' = chains \ {c}
    /\ IF Moved(c.list) # {}
       THEN Follow(c.list) /\ UNCHANGED <<embedded, held, ended>>
       ELSE /\ seen' = c.list /\ asked' = asked \cup {n \in Name : c.list[n] # 0}
            /\ Settle(c, TRUE, c.list[c.name] = 0)
    /\ UNCHANGED <<backend, lockedOut, op, missed>>

\* The list could not be read.
ChainFails(c) ==
    /\ c.at = "open" /\ drops < MaxDrops
    /\ drops' = drops + 1
    /\ chains' = chains \ {c}
    /\ Settle(c, FALSE, FALSE)
    /\ UNCHANGED <<live, born, locked, lockedOut, seen, op, asked, missed>>

\* Nor is it when the gate has locked meanwhile and the user dismisses the prompt.
ChainRefused(c) ==
    /\ c.at = "open" /\ locked
    /\ chains' = chains \ {c}
    /\ Settle(c, FALSE, FALSE)
    /\ UNCHANGED <<backend, lockedOut, seen, op, asked, missed>>

\* The backoff is over.
TimerFires ==
    /\ timer
    /\ Connect(active)
    /\ UNCHANGED <<backend, embedded, held, lockedOut, ended, page, asked, missed>>

\* The overlay's button, while the gate does not keep the page out.
Retry ==
    /\ active # Home /\ state = "disconnected" /\ ~ended /\ ~lockedOut
    /\ Reconnect
    /\ UNCHANGED <<backend, embedded, ended, page, asked>>

\* The window comes back to the foreground: a dropped connection is retried
\* at once.
Foreground ==
    /\ active # Home /\ state = "disconnected" /\ ~ended
    /\ Reconnect
    /\ UNCHANGED <<backend, embedded, ended, page, asked>>

\* "Start again" on the card of an embedded session that is over.
Restart ==
    /\ ended /\ ended' = FALSE
    /\ Reconnect
    /\ UNCHANGED <<backend, embedded, page, asked>>

\* Fault: nobody is told.
UnlockedQuietly ==
    /\ locked /\ locked' = FALSE
    /\ UNCHANGED <<live, born, drops, shown, link, lockedOut, ended, page, asked, missed>>

\* The gate opens, in this view or another, which tells all of them: a page that
\* is locked out asks gateLocked and connects again, the others ignore it.  (Its
\* answer is read at once: should the gate have locked again by then, the
\* handshake is refused and the gate asked about anew.)
Unlocked ==
    /\ locked /\ locked' = FALSE
    /\ IF lockedOut THEN Reconnect ELSE UNCHANGED <<active, held, link, lockedOut, missed>>
    /\ UNCHANGED <<live, born, drops, embedded, ended, page, asked>>

\* It locks by itself, or a view locks it; who is told of that and asks hears
\* that it is locked, and does nothing.
Locks ==
    /\ ~locked /\ locked' = TRUE
    /\ missed' = FALSE
    /\ UNCHANGED <<live, born, drops, shown, link, lockedOut, ended, page, asked>>

\* A session is renamed elsewhere: only its name changes.
RenamedElsewhere(m, n) ==
    /\ Listed(m) /\ ~Listed(n)
    /\ live' = [live EXCEPT ![n] = live[m], ![m] = 0]
    /\ UNCHANGED <<born, locked, drops, shown, link, lockedOut, ended, page, asked, missed>>

-----------------------------------------------------------------------------
\* refreshSessions: every CWD_POLL_INTERVAL_MS, and after whatever changes
\* the list.
Refresh ==
    /\ ~locked /\ Follow(live)
    /\ UNCHANGED <<backend, embedded, held, lockedOut, ended, chains, op, missed>>

\* renameSession(m, n): the backend renames it.  What its answer does to the
\* tab is settled by whether the tab showed m when the user asked.
Rename(m, n) ==
    /\ op = NoOp /\ m \in Tabs /\ ~locked /\ Listed(m) /\ ~Listed(n)
    /\ live' = [live EXCEPT ![n] = live[m], ![m] = 0]
    /\ op' = IF m = active THEN [kind |-> "rename", to |-> n] ELSE NoOp
    /\ asked' = asked \cup {n}
    /\ UNCHANGED <<born, locked, drops, shown, link, lockedOut, ended, seen, chains, missed>>

\* Its answer: the tab goes along.
RenameDone ==
    /\ op.kind = "rename" /\ op' = NoOp
    /\ SetActive(op.to)
    /\ UNCHANGED <<backend, embedded, held, lockedOut, ended, seen, chains, asked, missed>>

\* requestClose, once it is confirmed where the session is pinned or its shell
\* has children, and closeSession: the backend closes it, or has none of that
\* name any more.
RequestClose(n) ==
    /\ op = NoOp /\ n \in Tabs /\ ~embedded /\ ~locked
    /\ live' = [live EXCEPT ![n] = 0]
    /\ sock' = IF sock.at \in {"served", "open"} /\ Listed(n) /\ sock.id = live[n]
               THEN [sock EXCEPT !.at = "over"] ELSE sock
    /\ op' = IF n = active THEN [kind |-> "close", rest |-> {m \in Name \ {n} : seen[m] # 0}] ELSE NoOp
    /\ UNCHANGED <<born, locked, drops, shown, state, timer, pending, lockedOut, ended, seen, chains, asked, missed>>

\* Its answer: the tab that showed it goes to the next session, or Home.
CloseDone ==
    /\ op.kind = "close" /\ op' = NoOp
    /\ IF op.rest = {} THEN SetActive(Home)
       ELSE \E n \in op.rest : SetActive(n)
    /\ UNCHANGED <<backend, embedded, held, lockedOut, ended, seen, chains, asked, missed>>

-----------------------------------------------------------------------------
Next ==
    \/ Ready \/ SelectHome \/ Handshake \/ Opened \/ Drop \/ Closed
    \/ \E n \in Name : Restore(n) \/ Select(n) \/ Add(n) \/ Exits(n) \/ RequestClose(n)
    \/ \E c \in chains : ChainLocked(c) \/ ChainListed(c) \/ ChainDone(c) \/ ChainFails(c) \/ ChainRefused(c)
    \/ TimerFires \/ Foreground \/ Retry \/ Restart \/ Unlocked \/ Locks
    \/ \E m, n \in Name : RenamedElsewhere(m, n) \/ Rename(m, n)
    \/ Refresh \/ RenameDone \/ CloseDone

Spec == Init /\ [][Next]_vars

\* The network and the backend answer, timers fire, and what has arrived is
\* handled.
Fairness ==
    /\ WF_vars(Ready) /\ WF_vars(Handshake) /\ WF_vars(Opened) /\ WF_vars(Closed) /\ WF_vars(TimerFires) /\ WF_vars(Refresh)
    /\ WF_vars(\E c \in chains : ChainLocked(c) \/ ChainListed(c) \/ ChainDone(c) \/ ChainFails(c))

FairSpec == Spec /\ Fairness

-----------------------------------------------------------------------------
\* Types of the variables.
TypeOK ==
    /\ live \in [Name -> 0 .. MaxSessions] /\ born \in 0 .. MaxSessions /\ drops \in 0 .. MaxDrops
    /\ active \in Name \cup {Home}
    /\ sock \in [at : {"none", "connecting", "served", "open", "shut", "over"}, id : 0 .. MaxSessions]
    /\ state \in {"connecting", "connected", "disconnected"}
    /\ {embedded, held, timer, pending, lockedOut, ended, locked, missed} \subseteq BOOLEAN
    /\ seen \in [Name -> 0 .. MaxSessions] /\ asked \subseteq Name
    /\ Cardinality(chains) <= MaxChains
    /\ op.kind \in {"none", "rename", "close"}

\* scheduleReconnect's comment: while the gate keeps the page out no retry is
\* scheduled, whichever of two closed sockets is looked into last.
LockedOutWaits == lockedOut => ~timer /\ ~pending

\* A retry that is announced is going to happen, and only to a session.
RetryIsReal == pending => timer /\ active # Home

\* Restoring and reconnecting create no shell nobody asked for: a name is
\* created only if the user opened it here or the page saw it in a list.
NoStrayShell == [][born' # born => active \in asked]_vars

\* A dropped connection comes back by itself, unless the tab is left, the gate
\* is locked again or the session is over (or the bound on sessions is
\* reached): also one that the gate has kept out, once it opens.  One page does
\* not, against the comment above onAuthStatusChange: that which reads 'locked'
\* after it has ignored the news that the gate opened (missed).
ComesBack ==
    \A n \in Name :
        (state = "disconnected" /\ active = n)
            ~> (state = "connected" \/ active # n \/ locked \/ ended \/ missed \/ born = MaxSessions)
=============================================================================
