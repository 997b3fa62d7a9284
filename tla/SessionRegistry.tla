--------------------------- MODULE SessionRegistry ---------------------------
(***************************************************************************)
(* The registry of named terminal sessions of webmanager:                  *)
(* internal/termsession/registry.go, the life cycle half of                *)
(* internal/termsession/termsession.go and the handlers that call them     *)
(* (handlers_terminal.go, handlers_terminal_sessions.go).                  *)
(*                                                                         *)
(* Every step of this module is one critical section of Registry.mu or     *)
(* Session.mu, or one blocking operation between two of them.  The output  *)
(* a session carries is the subject of SessionStream.                      *)
(***************************************************************************)
EXTENDS Naturals, FiniteSets

CONSTANTS
    Name,        \* the names ValidateName accepts
    Session,     \* *Session objects (and, with each, its pump goroutine)
    Client,      \* WebSocket handlers of GET /api/terminal
    Admin,       \* handlers of PATCH and DELETE /api/terminal/sessions/{name}
    Reaper,      \* the goroutine of Registry.Run
    IdleTimeout, \* Registry.idleTimeout, in ticks
    NoSession, NoName

ASSUME ConstAssumption ==
    /\ IdleTimeout \in Nat \ {0}
    /\ NoSession \notin Session
    /\ NoName \notin Name
    /\ Reaper \notin Client \cup Admin \cup Session
    /\ Client \cap Admin = {}
    /\ Client \cap Session = {}
    /\ Admin \cap Session = {}

\* Each session's pump is the goroutine with the session's own identity.
Goroutine == Client \cup Admin \cup {Reaper} \cup Session

VARIABLES
    sessions,  \* Registry.sessions
    name,      \* Session.Name
    life,      \* Session.closed: "none" before newSession, then "open", "closed"
    shell,     \* the PTY leader: "none", "running", "exited" (a zombie), "reaped"
    pinned,    \* Session.pinned
    sinks,     \* Session.sinks, by the handler that attached each
    idle,      \* ticks since Session.lastAttachedAt, saturating at IdleTimeout
    forgetter, \* the forgetWhenDone goroutine: "none", "waiting", "finished"
    pc,        \* where each goroutine is
    held,      \* its local variable s
    existing,  \* GetOrCreate's local variable existing
    arg,       \* the name a request is about
    pinArg,    \* the pinned field of a request
    toReap,    \* reapIdle's local list
    conn       \* a relayed client's connection: "up", "down" (lost, or none),
               \* "ended" (closed by the server with status 1000)

reg   == <<sessions, forgetter>>
sess  == <<name, life, shell, pinned, sinks, idle>>
local == <<held, existing, arg, pinArg>>
vars  == <<reg, sess, pc, local, toReap, conn>>

Registered == {s \in Session : \E n \in Name : sessions[n] = s}

-----------------------------------------------------------------------------
Init ==
    /\ sessions = [n \in Name |-> NoSession]
    /\ forgetter = [s \in Session |-> "none"]
    /\ name = [s \in Session |-> NoName]
    /\ life = [s \in Session |-> "none"]
    /\ shell = [s \in Session |-> "none"]
    /\ pinned = [s \in Session |-> FALSE]
    /\ sinks = [s \in Session |-> {}]
    /\ idle = [s \in Session |-> 0]
    /\ pc = [g \in Goroutine |-> IF g \in Session THEN "none" ELSE "idle"]
    /\ held = [g \in Goroutine |-> NoSession]
    /\ existing = [c \in Client |-> NoSession]
    /\ arg = [g \in Client \cup Admin |-> NoName]
    /\ pinArg = [g \in Client \cup Admin |-> FALSE]
    /\ toReap = {}
    /\ conn = [c \in Client |-> "down"]

Goto(g, label) == pc' = [pc EXCEPT ![g] = label]

\* A handler returns; its local variables are gone.
Return(g) ==
    /\ Goto(g, "idle")
    /\ held' = [held EXCEPT ![g] = NoSession]
    /\ arg' = [arg EXCEPT ![g] = NoName]
    /\ pinArg' = [pinArg EXCEPT ![g] = FALSE]

-----------------------------------------------------------------------------
(* GetOrCreate, called by handleNamedTerminal for each new connection.     *)

\* The first critical section of GetOrCreate: an existing session is returned
\* whatever state it is in; otherwise the name is created, outside the lock
\* (opts, the pinned field of the request, is only consulted on that path).
Lookup(c, n, pin) ==
    /\ pc[c] = "idle"
    /\ IF sessions[n] # NoSession
         THEN /\ held' = [held EXCEPT ![c] = sessions[n]]
              /\ Goto(c, "attach")
              /\ UNCHANGED <<arg, pinArg>>
         ELSE /\ arg' = [arg EXCEPT ![c] = n]
              /\ pinArg' = [pinArg EXCEPT ![c] = pin]
              /\ Goto(c, "spawn")
              /\ UNCHANGED held
    /\ UNCHANGED <<reg, sess, existing, toReap, conn>>

\* newSession: starts the shell and the pump goroutine.
Spawn(c, s) ==
    /\ pc[c] = "spawn"
    /\ life[s] = "none"
    /\ name' = [name EXCEPT ![s] = arg[c]]
    /\ life' = [life EXCEPT ![s] = "open"]
    /\ shell' = [shell EXCEPT ![s] = "running"]
    /\ pinned' = [pinned EXCEPT ![s] = pinArg[c]]
    /\ held' = [held EXCEPT ![c] = s, ![s] = s]
    /\ pinArg' = [pinArg EXCEPT ![c] = FALSE]
    /\ pc' = [pc EXCEPT ![c] = "insert", ![s] = "read"]
    /\ UNCHANGED <<reg, sinks, idle, existing, arg, toReap, conn>>

\* pty.Start failed: the connection is closed with an internal error (1011).
SpawnFails(c) ==
    /\ pc[c] = "spawn"
    /\ Return(c)
    /\ UNCHANGED <<reg, sess, existing, toReap, conn>>

\* Fault: the map is not checked again.
InsertUnchecked(c) ==
    /\ pc[c] = "insert"
    /\ sessions' = [sessions EXCEPT ![arg[c]] = held[c]]
    /\ forgetter' = [forgetter EXCEPT ![held[c]] = "waiting"]
    /\ Goto(c, "attach")
    /\ arg' = [arg EXCEPT ![c] = NoName]
    /\ UNCHANGED <<sess, existing, held, pinArg, toReap, conn>>

\* Fault: nobody waits for the session's end.
InsertUnwatched(c) ==
    /\ pc[c] = "insert"
    /\ sessions[arg[c]] = NoSession
    /\ sessions' = [sessions EXCEPT ![arg[c]] = held[c]]
    /\ Goto(c, "attach")
    /\ arg' = [arg EXCEPT ![c] = NoName]
    /\ UNCHANGED <<forgetter, sess, existing, held, pinArg, toReap, conn>>

\* The second critical section of GetOrCreate: the map is checked again, and
\* the loser of a creation race closes the session it started.
Insert(c) ==
    LET s == held[c]  n == arg[c] IN
    /\ pc[c] = "insert"
    /\ IF sessions[n] # NoSession
         THEN /\ existing' = [existing EXCEPT ![c] = sessions[n]]
              /\ Goto(c, "close")
              /\ UNCHANGED reg
         ELSE /\ sessions' = [sessions EXCEPT ![n] = s]
              /\ forgetter' = [forgetter EXCEPT ![s] = "waiting"]
              /\ Goto(c, "attach")
              /\ UNCHANGED existing
    /\ arg' = [arg EXCEPT ![c] = NoName]
    /\ UNCHANGED <<sess, held, pinArg, toReap, conn>>

-----------------------------------------------------------------------------
(* relayTerminalSession: Attach, the watcher goroutine, the read loop.     *)

\* Fault: no check that the session is still open.
AttachAnyway(c) ==
    LET s == held[c] IN
    /\ pc[c] = "attach"
    /\ sinks' = [sinks EXCEPT ![s] = @ \cup {c}]
    /\ idle' = [idle EXCEPT ![s] = 0]
    /\ conn' = [conn EXCEPT ![c] = "up"]
    /\ Goto(c, "relay")
    /\ UNCHANGED <<reg, name, life, shell, pinned, local, toReap>>

Attach(c) ==
    LET s == held[c] IN
    /\ pc[c] = "attach"
    /\ life[s] = "open"
    /\ sinks' = [sinks EXCEPT ![s] = @ \cup {c}]
    /\ idle' = [idle EXCEPT ![s] = 0]
    /\ conn' = [conn EXCEPT ![c] = "up"]
    /\ Goto(c, "relay")
    /\ UNCHANGED <<reg, name, life, shell, pinned, local, toReap>>

\* ErrSessionGone: the session ended between GetOrCreate and Attach (1011).
AttachFails(c) ==
    /\ pc[c] = "attach"
    /\ life[held[c]] # "open"
    /\ Return(c)
    /\ UNCHANGED <<reg, sess, existing, toReap, conn>>

\* The client, or the network under it, goes away; nothing before the read
\* loop looks at the connection.
ClientDrops(c) ==
    /\ pc[c] = "relay"
    /\ conn[c] = "up"
    /\ conn' = [conn EXCEPT ![c] = "down"]
    /\ UNCHANGED <<reg, sess, pc, local, toReap>>

\* pump's write to a stalled or broken client failed: only that sink goes, and
\* the timed-out write has torn the connection down.
SinkFails(c) ==
    LET s == held[c] IN
    /\ pc[c] = "relay"
    /\ c \in sinks[s]
    /\ conn' = [conn EXCEPT ![c] = "down"]
    /\ sinks' = [sinks EXCEPT ![s] = @ \ {c}]
    /\ idle' = [idle EXCEPT ![s] = 0]
    /\ UNCHANGED <<reg, name, life, shell, pinned, pc, local, toReap>>

\* Fault: the watcher waits for its sink to be removed together with Done.
WatcherNeedsSink(c) ==
    /\ pc[c] = "relay"
    /\ life[held[c]] = "closed" /\ c \in sinks[held[c]]
    /\ conn' = [conn EXCEPT ![c] = "ended"]
    /\ UNCHANGED <<reg, sess, pc, local, toReap>>

\* The watcher goroutine sees Done: "session ended", status 1000.
WatcherFires(c) ==
    /\ pc[c] = "relay"
    /\ life[held[c]] = "closed"
    /\ conn[c] = "up"
    /\ conn' = [conn EXCEPT ![c] = "ended"]
    /\ UNCHANGED <<reg, sess, pc, local, toReap>>

\* A keystroke cannot be written any more (the shell is gone, or Close closed
\* the PTY): the read loop breaks and closes the connection, with 1000 as well.
KeystrokeFails(c) ==
    /\ pc[c] = "relay"
    /\ shell[held[c]] # "running" \/ life[held[c]] = "closed"
    /\ conn[c] = "up"
    /\ conn' = [conn EXCEPT ![c] = "ended"]
    /\ UNCHANGED <<reg, sess, pc, local, toReap>>

\* The read loop has ended; the deferred detach removes the sink and stamps
\* lastAttachedAt, also when the sink is already gone.
Detach(c) ==
    LET s == held[c] IN
    /\ pc[c] = "relay"
    /\ conn[c] # "up"
    /\ sinks' = [sinks EXCEPT ![s] = @ \ {c}]
    /\ idle' = [idle EXCEPT ![s] = 0]
    /\ conn' = [conn EXCEPT ![c] = "down"]
    /\ Return(c)
    /\ UNCHANGED <<reg, name, life, shell, pinned, existing, toReap>>

-----------------------------------------------------------------------------
(* PATCH and DELETE.                                                       *)

\* Fault: the map is re-keyed but the session keeps its label.
RenameKeyOnly(old, new) ==
    LET s == sessions[old] IN
    /\ s # NoSession
    /\ new # old
    /\ sessions[new] = NoSession
    /\ sessions' = [sessions EXCEPT ![old] = NoSession, ![new] = s]
    /\ UNCHANGED name

Rename(old, new) ==
    LET s == sessions[old] IN
    /\ s # NoSession
    /\ new # old
    /\ sessions[new] = NoSession
    /\ sessions' = [sessions EXCEPT ![old] = NoSession, ![new] = s]
    /\ name' = [name EXCEPT ![s] = new]

\* handlePatchTerminalSession with a name: Registry.Rename is one critical
\* section; with a pinned field as well, SetPinned(new) follows.  A refused
\* rename (ErrSessionGone, ErrNameTaken) changes nothing.
PatchName(a, old, new) ==
    /\ pc[a] = "idle"
    /\ Rename(old, new)
    /\ \/ UNCHANGED <<pc, arg, pinArg>>
       \/ \E p \in BOOLEAN :
             /\ Goto(a, "pinLookup")
             /\ arg' = [arg EXCEPT ![a] = new]
             /\ pinArg' = [pinArg EXCEPT ![a] = p]
    /\ UNCHANGED <<forgetter, life, shell, pinned, sinks, idle, held, existing, toReap, conn>>

\* A PATCH of pinned alone (or with the name the session already has).
PatchPinned(a, n, p) ==
    /\ pc[a] = "idle"
    /\ Goto(a, "pinLookup")
    /\ arg' = [arg EXCEPT ![a] = n]
    /\ pinArg' = [pinArg EXCEPT ![a] = p]
    /\ UNCHANGED <<reg, sess, held, existing, toReap, conn>>

\* Registry.SetPinned looks the session up under Registry.mu ...
PinLookup(a) ==
    /\ pc[a] = "pinLookup"
    /\ IF sessions[arg[a]] = NoSession
         THEN Return(a)
         ELSE /\ held' = [held EXCEPT ![a] = sessions[arg[a]]]
              /\ Goto(a, "pinSet")
              /\ UNCHANGED <<arg, pinArg>>
    /\ UNCHANGED <<reg, sess, existing, toReap, conn>>

\* Fault: the entry is written back together with the flag.
PinSetWritesBack(a) ==
    /\ pc[a] = "pinSet"
    /\ pinned' = [pinned EXCEPT ![held[a]] = pinArg[a]]
    /\ sessions' = [sessions EXCEPT ![name[held[a]]] = held[a]]
    /\ Return(a)
    /\ UNCHANGED <<forgetter, name, life, shell, sinks, idle, existing, toReap, conn>>

\* ... and pins it under Session.mu, after Registry.mu is released.
PinSet(a) ==
    /\ pc[a] = "pinSet"
    /\ pinned' = [pinned EXCEPT ![held[a]] = pinArg[a]]
    /\ Return(a)
    /\ UNCHANGED <<reg, name, life, shell, sinks, idle, existing, toReap, conn>>

\* Fault: the entry is left for forgetWhenDone to delete.
RemoveCloseOnly(a, n) ==
    /\ pc[a] = "idle"
    /\ sessions[n] # NoSession
    /\ held' = [held EXCEPT ![a] = sessions[n]]
    /\ Goto(a, "close")
    /\ UNCHANGED <<reg, sess, existing, arg, pinArg, toReap, conn>>

\* Registry.Remove: out of the map first, closed after.
Remove(a, n) ==
    /\ pc[a] = "idle"
    /\ sessions[n] # NoSession
    /\ held' = [held EXCEPT ![a] = sessions[n]]
    /\ sessions' = [sessions EXCEPT ![n] = NoSession]
    /\ Goto(a, "close")
    /\ UNCHANGED <<forgetter, sess, existing, arg, pinArg, toReap, conn>>

-----------------------------------------------------------------------------
(* Idle collection and forgetting.                                         *)

\* Fault: the pinned test is inverted.
ReapablePinned(s)   == pinned[s] /\ sinks[s] = {} /\ idle[s] >= IdleTimeout

Reapable(s) == ~pinned[s] /\ sinks[s] = {} /\ idle[s] >= IdleTimeout

\* Fault: names without a session are collected too.
ReapScanNil ==
    /\ pc[Reaper] = "idle"
    /\ toReap' = {sessions[n] : n \in {m \in Name : sessions[m] \in Session => Reapable(sessions[m])}}
    /\ sessions' = [n \in Name |-> IF sessions[n] \in toReap' THEN NoSession ELSE sessions[n]]
    /\ toReap' # {}
    /\ Goto(Reaper, "reap")
    /\ UNCHANGED <<forgetter, sess, local, conn>>

\* reapIdle under Registry.mu: every idle session leaves the map at once ...
ReapScan ==
    /\ pc[Reaper] = "idle"
    /\ toReap' = {s \in Registered : Reapable(s)}
    /\ sessions' = [n \in Name |-> IF sessions[n] \in toReap' THEN NoSession ELSE sessions[n]]
    /\ toReap' # {}
    /\ Goto(Reaper, "reap")
    /\ UNCHANGED <<forgetter, sess, local, conn>>

\* ... and is closed afterwards, one by one.
ReapNext(s) ==
    /\ pc[Reaper] = "reap"
    /\ s \in toReap
    /\ toReap' = toReap \ {s}
    /\ held' = [held EXCEPT ![Reaper] = s]
    /\ Goto(Reaper, "close")
    /\ UNCHANGED <<reg, sess, existing, arg, pinArg, conn>>

ReapDone ==
    /\ pc[Reaper] = "reap"
    /\ toReap = {}
    /\ Goto(Reaper, "idle")
    /\ UNCHANGED <<reg, sess, local, toReap, conn>>

\* Fault: the entry goes whichever session it names.
ForgetByName(s) ==
    /\ forgetter[s] = "waiting"
    /\ life[s] = "closed"
    /\ forgetter' = [forgetter EXCEPT ![s] = "finished"]
    /\ sessions' = [sessions EXCEPT ![name[s]] = NoSession]
    /\ UNCHANGED <<sess, pc, local, toReap, conn>>

\* forgetWhenDone: after Done, the entry under the session's current name goes,
\* unless that name belongs to another session by now.
Forget(s) ==
    LET n == name[s] IN
    /\ forgetter[s] = "waiting"
    /\ life[s] = "closed"
    /\ forgetter' = [forgetter EXCEPT ![s] = "finished"]
    /\ sessions' = IF sessions[n] = s THEN [sessions EXCEPT ![n] = NoSession] ELSE sessions
    /\ UNCHANGED <<sess, pc, local, toReap, conn>>

-----------------------------------------------------------------------------
(* Session.Close, by any of its callers, and pump.                         *)

\* Where a caller of Close goes on.
AfterClose(g) ==
    CASE g \in Client  -> "attach"
      [] g = Reaper    -> "reap"
      [] g \in Session -> "none"
      [] OTHER         -> "idle"

\* A loser of GetOrCreate goes on with the session that won.
ReturnFromClose(g) ==
    /\ Goto(g, AfterClose(g))
    /\ held' = [held EXCEPT ![g] = IF g \in Client THEN existing[g] ELSE NoSession]
    /\ existing' = IF g \in Client THEN [existing EXCEPT ![g] = NoSession] ELSE existing

\* The critical section of Close; a second Close returns at once.
Close(g) ==
    LET s == held[g] IN
    /\ pc[g] = "close"
    /\ IF life[s] = "closed"
         THEN /\ ReturnFromClose(g)
              /\ UNCHANGED <<life, sinks>>
         ELSE /\ life' = [life EXCEPT ![s] = "closed"]
              /\ sinks' = [sinks EXCEPT ![s] = {}]
              /\ Goto(g, "kill")
              /\ UNCHANGED <<held, existing>>
    /\ UNCHANGED <<reg, name, shell, pinned, idle, arg, pinArg, toReap, conn>>

\* Fault: the process is signalled but never waited for.
KillWithoutWait(g) ==
    /\ pc[g] = "kill"
    /\ shell' = [shell EXCEPT ![held[g]] = "exited"]
    /\ ReturnFromClose(g)
    /\ UNCHANGED <<reg, name, life, pinned, sinks, idle, arg, pinArg, toReap, conn>>

\* ptmx.Close, SIGHUP, at most killGrace, SIGKILL: Wait returns in the end.
Kill(g) ==
    /\ pc[g] = "kill"
    /\ shell' = [shell EXCEPT ![held[g]] = "reaped"]
    /\ ReturnFromClose(g)
    /\ UNCHANGED <<reg, name, life, pinned, sinks, idle, arg, pinArg, toReap, conn>>

\* The shell exits by itself (exit, Ctrl+D, a crash), or dies of the SIGHUP.
ShellExits(s) ==
    /\ shell[s] = "running"
    /\ shell' = [shell EXCEPT ![s] = "exited"]
    /\ UNCHANGED <<reg, name, life, pinned, sinks, idle, pc, local, toReap, conn>>

\* pump's Read fails: the PTY hung up, or Close closed it.  It calls Close.
PumpEOF(s) ==
    /\ pc[s] = "read"
    /\ shell[s] # "running" \/ life[s] = "closed"
    /\ Goto(s, "close")
    /\ UNCHANGED <<reg, sess, local, toReap, conn>>

\* Time passes since every session's lastAttachedAt.
Tick ==
    /\ idle' = [s \in Session |->
                   IF life[s] # "none" /\ idle[s] < IdleTimeout THEN idle[s] + 1 ELSE idle[s]]
    /\ UNCHANGED <<reg, name, life, shell, pinned, sinks, pc, local, toReap, conn>>

-----------------------------------------------------------------------------
ClientStep(c) ==
    \/ \E s \in Session : Spawn(c, s)
    \/ SpawnFails(c) \/ Insert(c) \/ Attach(c) \/ AttachFails(c) \/ Detach(c)

AdminStep(a) == PinLookup(a) \/ PinSet(a)

ReaperStep == ReapScan \/ (\E s \in Session : ReapNext(s)) \/ ReapDone

CloseStep(g) == Close(g) \/ Kill(g)

Environment ==
    \/ \E c \in Client :
          \/ \E n \in Name, p \in BOOLEAN : Lookup(c, n, p)
          \/ ClientDrops(c) \/ SinkFails(c) \/ KeystrokeFails(c)
    \/ \E a \in Admin :
          \/ \E n \in Name, m \in Name : PatchName(a, n, m)
          \/ \E n \in Name, p \in BOOLEAN : PatchPinned(a, n, p)
          \/ \E n \in Name : Remove(a, n)
    \/ \E s \in Session : ShellExits(s)

Next ==
    \/ \E c \in Client : ClientStep(c) \/ WatcherFires(c)
    \/ \E a \in Admin : AdminStep(a)
    \/ ReaperStep
    \/ \E g \in Goroutine : CloseStep(g)
    \/ \E s \in Session : Forget(s) \/ PumpEOF(s)
    \/ Tick
    \/ Environment

Spec == Init /\ [][Next]_vars

\* Every goroutine that can run does: the Go scheduler is fair, the ticker
\* fires, and each write or wait has a deadline.  Requests, drops and exits of
\* shells need not happen.
Fairness ==
    /\ \A c \in Client : WF_vars(ClientStep(c)) /\ WF_vars(WatcherFires(c))
    /\ \A a \in Admin : WF_vars(AdminStep(a))
    /\ WF_vars(ReaperStep)
    /\ \A g \in Goroutine : WF_vars(CloseStep(g))
    /\ \A s \in Session : WF_vars(Forget(s)) /\ WF_vars(PumpEOF(s))
    /\ WF_vars(Tick)

FairSpec == Spec /\ Fairness
=============================================================================
