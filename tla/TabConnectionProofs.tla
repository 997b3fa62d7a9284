-------------------------- MODULE TabConnectionProofs --------------------------
(***************************************************************************)
(* The safety properties of TabConnection, proved for any number of names,  *)
(* sessions, failures of the network and sockets being looked into.         *)
(***************************************************************************)
EXTENDS TabConnection, TLAPS

\* The tab shows Home or what was asked for; it has a socket only off Home;
\* and whatever may become the next tab, from the list it holds or from the
\* request it waits for, was asked for or seen in a list.
TabIsAsked == active # Home => active \in asked
SocketIsOfTab == sock.at # "none" => active # Home
NextIsAsked ==
    /\ \A n \in Name : seen[n] # 0 => n \in asked
    /\ op.kind = "rename" => op.to \in asked
    /\ op.kind = "close" => op.rest \subseteq asked

TabInv == LockedOutWaits /\ RetryIsReal /\ TabIsAsked /\ SocketIsOfTab /\ NextIsAsked

-----------------------------------------------------------------------------
\* What the invariant says of the tab and its connection alone.
Linked == LockedOutWaits /\ RetryIsReal /\ TabIsAsked /\ SocketIsOfTab

\* The connect effect for a tab that was asked for, or Home, leaves a sound
\* connection, whatever there was before.
LEMMA ConnectLinks ==
    ASSUME NEW n, NEW hold, ConnectUnless(n, hold), n # Home => n \in asked'
    PROVE  Linked'
  BY DEF ConnectUnless, NoSock, Linked, LockedOutWaits, RetryIsReal, TabIsAsked, SocketIsOfTab

\* So does setting the tab, which may change nothing.
LEMMA SetActiveLinks ==
    ASSUME NEW n, SetActive(n), n # Home => n \in asked', Linked, asked \subseteq asked', UNCHANGED lockedOut
    PROVE  Linked'
  <1>1. CASE n = active
    BY <1>1 DEF SetActive, Linked, LockedOutWaits, RetryIsReal, TabIsAsked, SocketIsOfTab
  <1>2. CASE n # active
    BY <1>2, ConnectLinks DEF SetActive, Connect
  <1> QED BY <1>1, <1>2

\* A list that is read: the tab follows its session, which the list has under
\* its new name.
LEMMA FollowLinks ==
    ASSUME NEW list, Follow(list), Linked, UNCHANGED lockedOut
    PROVE  Linked' /\ asked \subseteq asked' /\ \A n \in Name : seen'[n] # 0 => n \in asked'
  <1>1. asked \subseteq asked' /\ \A n \in Name : seen'[n] # 0 => n \in asked'
    BY DEF Follow
  <1>2. CASE Moved(list) = {}
    BY <1>1, <1>2 DEF Follow, Linked, LockedOutWaits, RetryIsReal, TabIsAsked, SocketIsOfTab
  <1>3. CASE Moved(list) # {}
    <2>1. PICK n \in Moved(list) : Connect(n)
      BY <1>3 DEF Follow
    <2>2. n \in asked'
      BY DEF Follow, Moved
    <2> QED BY <2>1, <2>2, ConnectLinks, <1>1 DEF Connect
  <1> QED BY <1>1, <1>2, <1>3

\* scheduleReconnect looks at what keeps the page out.
LEMMA ScheduleLinks ==
    ASSUME Schedule, Linked, UNCHANGED <<lockedOut, active, sock>>, asked \subseteq asked'
    PROVE  Linked'
  BY DEF Schedule, Linked, LockedOutWaits, RetryIsReal, TabIsAsked, SocketIsOfTab

\* The end of ws.onclose.
LEMMA SettleLinks ==
    ASSUME NEW c, NEW known, NEW gone, Settle(c, known, gone), Linked, UNCHANGED lockedOut, asked \subseteq asked'
    PROVE  Linked'
  <1>1. CASE UNCHANGED <<active, sock, timer, pending>>
    BY <1>1 DEF Linked, LockedOutWaits, RetryIsReal, TabIsAsked, SocketIsOfTab
  <1>2. CASE Connect(Home)
    BY <1>2, ConnectLinks DEF Connect
  <1>3. CASE Schedule /\ UNCHANGED <<shown, sock, state, ended>>
    BY <1>3, ScheduleLinks DEF shown
  <1> QED BY <1>1, <1>2, <1>3 DEF Settle, shown, link

-----------------------------------------------------------------------------
LEMMA TabInit == Init => TabInv
  BY DEF Init, TabInv, LockedOutWaits, RetryIsReal, TabIsAsked, SocketIsOfTab, NextIsAsked, NoSock, NoList, NoOp

LEMMA TabStep == TabInv /\ [Next]_vars => TabInv'
  <1> SUFFICES ASSUME TabInv, [Next]_vars PROVE TabInv'
    OBVIOUS
  <1> SUFFICES Linked' /\ NextIsAsked'
    BY DEF TabInv, Linked
  <1>l. Linked /\ NextIsAsked
    BY DEF TabInv, Linked
  <1> USE <1>l
  \* A step that leaves the connection alone.
  <1>k. ASSUME UNCHANGED <<active, timer, pending, lockedOut>>, asked \subseteq asked',
               sock'.at # "none" => sock.at # "none"
        PROVE  Linked'
    BY <1>k DEF Linked, LockedOutWaits, RetryIsReal, TabIsAsked, SocketIsOfTab
  \* One that leaves alone what may become the next tab.
  <1>n. ASSUME UNCHANGED <<seen, op>>, asked \subseteq asked' PROVE NextIsAsked'
    BY <1>n DEF NextIsAsked
  <1>1. CASE Ready
    <2>1. PICK n : ConnectUnless(n, FALSE)
      BY <1>1 DEF Ready
    <2>2. n # Home => n \in asked'
      BY <1>1, <2>1 DEF Ready, ConnectUnless
    <2>3. Linked'
      BY <2>1, <2>2, ConnectLinks
    <2> QED BY <1>1, <2>3, <1>n DEF Ready, page
  <1>2. CASE SelectHome
    BY <1>2, <1>n, SetActiveLinks DEF SelectHome, page
  <1>3. CASE Handshake
    BY <1>3, <1>n, <1>k DEF Handshake, shown, page
  <1>4. CASE Opened
    <2>1. Linked'
      BY <1>4 DEF Opened, shown, Linked, LockedOutWaits, RetryIsReal, TabIsAsked, SocketIsOfTab
    <2> QED BY <1>4, <2>1, <1>n DEF Opened
  <1>5. CASE Drop
    BY <1>5, <1>n, <1>k DEF Drop, shown, page
  <1>6. CASE Closed
    BY <1>6, <1>n, <1>k DEF Closed, shown
  <1>7. ASSUME NEW n \in Name, Restore(n) PROVE Linked' /\ NextIsAsked'
    BY <1>7, <1>n, SetActiveLinks DEF Restore, page
  <1>8. ASSUME NEW n \in Name, Select(n) PROVE Linked' /\ NextIsAsked'
    <2>1. n \in asked'
      BY <1>8 DEF Select, NextIsAsked
    <2> QED BY <1>8, <2>1, <1>n, SetActiveLinks DEF Select, page
  <1>9. ASSUME NEW n \in Name, Add(n) PROVE Linked' /\ NextIsAsked'
    BY <1>9, <1>n, SetActiveLinks DEF Add, page
  <1>10. ASSUME NEW n \in Name, Exits(n) PROVE Linked' /\ NextIsAsked'
    BY <1>10, <1>n, <1>k DEF Exits, shown, page
  <1>11. ASSUME NEW n \in Name, RequestClose(n) PROVE Linked' /\ NextIsAsked'
    <2>1. Linked'
      BY <1>11, <1>k DEF RequestClose, shown
    <2>2. NextIsAsked'
      BY <1>11 DEF RequestClose, NextIsAsked, NoOp
    <2> QED BY <2>1, <2>2
  <1>12. ASSUME NEW c \in chains, ChainLocked(c) PROVE Linked' /\ NextIsAsked'
    <2>1. Linked'
      BY <1>12 DEF ChainLocked, shown, Linked, LockedOutWaits, RetryIsReal, TabIsAsked, SocketIsOfTab
    <2> QED BY <1>12, <2>1, <1>n DEF ChainLocked
  <1>13. ASSUME NEW c \in chains, ChainListed(c) PROVE Linked' /\ NextIsAsked'
    BY <1>13, <1>n, <1>k DEF ChainListed, shown, link
  <1>14. ASSUME NEW c \in chains, ChainDone(c) PROVE Linked' /\ NextIsAsked'
    <2>1. UNCHANGED <<lockedOut, op>>
      BY <1>14 DEF ChainDone
    <2>2. CASE Follow(c.list)
      BY <2>1, <2>2, FollowLinks DEF NextIsAsked
    <2>3. CASE seen' = c.list /\ asked' = asked \cup {n \in Name : c.list[n] # 0} /\ Settle(c, TRUE, c.list[c.name] = 0)
      BY <2>1, <2>3, SettleLinks DEF NextIsAsked
    <2> QED BY <1>14, <2>2, <2>3 DEF ChainDone
  <1>15. ASSUME NEW c \in chains, ChainFails(c) PROVE Linked' /\ NextIsAsked'
    BY <1>15, <1>n, SettleLinks DEF ChainFails
  <1>16. CASE TimerFires
    BY <1>16, <1>n, ConnectLinks DEF TimerFires, Connect, page, Linked, TabIsAsked
  <1>17. CASE Foreground \/ Retry \/ Restart
    <2>1. Connect(active) /\ UNCHANGED <<page, asked>>
      BY <1>17 DEF Foreground, Retry, Restart, Reconnect
    <2> QED BY <2>1, <1>n, ConnectLinks DEF Connect, page, Linked, TabIsAsked
  <1>18. CASE Unlocked
    <2>1. UNCHANGED <<page, asked>>
      BY <1>18 DEF Unlocked
    <2>2. CASE lockedOut
      BY <1>18, <2>1, <2>2, <1>n, ConnectLinks DEF Unlocked, Reconnect, Connect, page, Linked, TabIsAsked
    <2>3. CASE ~lockedOut
      BY <1>18, <2>1, <2>3, <1>n, <1>k DEF Unlocked, link, page
    <2> QED BY <2>2, <2>3
  <1>19. CASE Locks
    BY <1>19, <1>n, <1>k DEF Locks, shown, link, page
  <1>20. ASSUME NEW m \in Name, NEW n \in Name, RenamedElsewhere(m, n) PROVE Linked' /\ NextIsAsked'
    BY <1>20, <1>n, <1>k DEF RenamedElsewhere, shown, link, page
  <1>21. ASSUME NEW m \in Name, NEW n \in Name, Rename(m, n) PROVE Linked' /\ NextIsAsked'
    <2>1. Linked'
      BY <1>21, <1>k DEF Rename, shown, link
    <2>2. NextIsAsked'
      BY <1>21 DEF Rename, NextIsAsked, NoOp
    <2> QED BY <2>1, <2>2
  <1>22. CASE Refresh
    BY <1>22, FollowLinks DEF Refresh, NextIsAsked
  <1>23. CASE RenameDone
    <2>1. SetActive(op.to) /\ op.to \in asked' /\ asked' = asked /\ UNCHANGED <<lockedOut, seen>>
      BY <1>23 DEF RenameDone, NextIsAsked
    <2>2. NextIsAsked'
      BY <1>23, <2>1 DEF RenameDone, NextIsAsked, NoOp
    <2> QED BY <2>1, <2>2, SetActiveLinks
  <1>24. CASE CloseDone
    <2>1. asked' = asked /\ UNCHANGED <<lockedOut, seen>>
      BY <1>24 DEF CloseDone
    <2>2. NextIsAsked'
      BY <1>24, <2>1 DEF CloseDone, NextIsAsked, NoOp
    <2>3. PICK n : SetActive(n) /\ (n # Home => n \in asked')
      BY <1>24, <2>1 DEF CloseDone, NextIsAsked
    <2> QED BY <2>1, <2>2, <2>3, SetActiveLinks
  <1>25. ASSUME NEW c \in chains, ChainRefused(c) PROVE Linked' /\ NextIsAsked'
    BY <1>25, <1>n, SettleLinks DEF ChainRefused
  <1>26. CASE UNCHANGED vars
    BY <1>26, <1>n, <1>k DEF vars, shown, link, page
  <1> QED
    BY <1>1, <1>2, <1>3, <1>4, <1>5, <1>6, <1>7, <1>8, <1>9, <1>10, <1>11, <1>12, <1>13, <1>14, <1>15,
       <1>16, <1>17, <1>18, <1>19, <1>20, <1>21, <1>22, <1>23, <1>24, <1>25, <1>26 DEF Next

\* The invariant of the tab holds always, whatever its bounds.
THEOREM TabInvHolds == Spec => []TabInv
  BY TabInit, TabStep, PTL DEF Spec

\* scheduleReconnect and ws.onclose: while the gate keeps the page out no retry
\* is set or announced.
THEOREM LockedOutWaitsAlways == Spec => []LockedOutWaits
  BY TabInvHolds, PTL DEF TabInv

\* pendingReconnect: a retry that is announced has its timer, off Home.
THEOREM RetryIsRealAlways == Spec => []RetryIsReal
  BY TabInvHolds, PTL DEF TabInv

\* Only the handshake creates a session, and of a name that the user asked for
\* or a list had.
THEOREM NoStrayShellAlways == Spec => NoStrayShell
  <1>1. TabInv /\ [Next]_vars => [born' # born => active \in asked]_vars
    <2> SUFFICES ASSUME TabInv, Next, born' # born PROVE active \in asked
      BY DEF vars
    <2>1. Handshake
      BY DEF Next, Ready, SelectHome, Opened, Drop, Closed, Restore, Select, Add, Exits, RequestClose, ChainLocked, ChainListed,
             ChainDone, ChainFails, ChainRefused, TimerFires, Foreground, Retry, Restart, Unlocked, Locks, RenamedElsewhere, Rename, Refresh,
             RenameDone, CloseDone, backend
    <2> QED BY <2>1 DEF Handshake, TabInv, SocketIsOfTab, TabIsAsked
  <1> QED BY <1>1, TabInvHolds, PTL DEF Spec, NoStrayShell
===============================================================================
