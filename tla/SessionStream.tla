---------------------------- MODULE SessionStream ----------------------------
(***************************************************************************)
(* The output of one terminal session, from the PTY to every connection    *)
(* that watches it: pump, Attach, the scrollback ring and Close of         *)
(* internal/termsession/termsession.go, and relayTerminalSession of        *)
(* handlers_terminal.go.                                                   *)
(*                                                                         *)
(* Output is a sequence of numbered chunks, one per Read of the PTY; the   *)
(* ring keeps the last RingSize of them (its bytes are the subject of      *)
(* RingBuffer).  A connection attaches once.                               *)
(***************************************************************************)
EXTENDS Naturals, Sequences

CONSTANTS
    Conn,      \* WebSocket connections
    RingSize,  \* chunks the scrollback ring holds
    MaxChunk,  \* bound: chunks the shell writes
    Clear      \* the preamble and clear-screen message that opens a replay

ASSUME StreamAssumption ==
    /\ RingSize \in Nat \ {0}
    /\ MaxChunk \in Nat
    /\ Clear \notin Nat

VARIABLES
    out,      \* chunks the shell has written to the PTY
    exited,   \* the shell is gone: after the chunks it wrote, the PTY hangs up
    fed,      \* chunks pump has written to the ring
    ring,     \* the ring's content, oldest first
    sinks,    \* Session.sinks
    closed,   \* Session.closed; the channel done is closed with it
    killed,   \* Close was called by Remove, reapIdle or a lost creation race
    ppc,      \* pump: "read", "feed" (a chunk in hand), "deliver", "done"
    targets,  \* pump's copy of the sinks it has still to write to
    cpc,      \* a handler: "new", "replay", "relay", "gone"
    todo,     \* the replay messages a handler has still to write
    from,     \* the last chunk of the replay a handler was given
    live,     \* the live chunks written to each connection, in order
    conn      \* "up", "stalled" (writes block), "down", "ended" (closed by the
              \* watcher, "session ended"), "hungup" (closed by the read loop)

pty     == <<out, exited>>
session == <<fed, ring, sinks, closed, killed>>
pump    == <<ppc, targets>>
handler == <<cpc, todo, from>>
vars    == <<pty, session, pump, handler, live, conn>>

Init ==
    /\ out = 0 /\ exited = FALSE
    /\ fed = 0 /\ ring = << >> /\ sinks = {} /\ closed = FALSE /\ killed = FALSE
    /\ ppc = "read" /\ targets = {}
    /\ cpc = [c \in Conn |-> "new"]
    /\ todo = [c \in Conn |-> << >>]
    /\ from = [c \in Conn |-> 0]
    /\ live = [c \in Conn |-> << >>]
    /\ conn = [c \in Conn |-> "up"]

-----------------------------------------------------------------------------
(* The shell and the network.                                              *)

ShellWrites ==
    /\ ~exited
    /\ out < MaxChunk
    /\ out' = out + 1
    /\ UNCHANGED <<exited, session, pump, handler, live, conn>>

ShellExits ==
    /\ ~exited
    /\ exited' = TRUE
    /\ UNCHANGED <<out, session, pump, handler, live, conn>>

\* A client stops reading (a backgrounded app), goes on, or disappears.
Network(c) ==
    /\ \/ conn[c] = "up" /\ conn' = [conn EXCEPT ![c] = "stalled"]
       \/ conn[c] = "stalled" /\ conn' = [conn EXCEPT ![c] = "up"]
       \/ conn[c] \in {"up", "stalled"} /\ conn' = [conn EXCEPT ![c] = "down"]
    /\ UNCHANGED <<pty, session, pump, handler, live>>

-----------------------------------------------------------------------------
(* pump, the session's only reader.                                        *)

\* Fault: the ring keeps what it has and drops what does not fit.
PushOldest(r, x) == IF Len(r) < RingSize THEN Append(r, x) ELSE r

\* The ring after a write: the oldest chunk goes when it is full.
Push(r, x) == IF Len(r) < RingSize THEN Append(r, x) ELSE Append(Tail(r), x)

\* Fault: a Read that returns nothing counts as a chunk.
PumpReadEmpty ==
    /\ ppc = "read"
    /\ fed <= out
    /\ ppc' = "feed"
    /\ UNCHANGED <<pty, session, targets, handler, live, conn>>

\* ptmx.Read returns the next chunk; Close announces the end before it closes
\* the PTY, so pump may still read after that.
PumpRead ==
    /\ ppc = "read"
    /\ fed < out
    /\ ppc' = "feed"
    /\ UNCHANGED <<pty, session, targets, handler, live, conn>>

\* Fault: connections that still replay are left out of the copy.
PumpFeedSkips ==
    /\ ppc = "feed"
    /\ fed' = fed + 1
    /\ ring' = Push(ring, fed + 1)
    /\ targets' = {c \in sinks : cpc[c] = "relay"}
    /\ ppc' = "deliver"
    /\ UNCHANGED <<pty, sinks, closed, killed, handler, live, conn>>

\* Under Session.mu: the chunk goes into the ring (feedParsers, also when a
\* parser panics) and the set of sinks is copied.
PumpFeed ==
    /\ ppc = "feed"
    /\ fed' = fed + 1
    /\ ring' = Push(ring, fed + 1)
    /\ targets' = sinks
    /\ ppc' = "deliver"
    /\ UNCHANGED <<pty, sinks, closed, killed, handler, live, conn>>

\* Fault: a sink's write has no deadline.
PumpDeliverBlocks(c) ==
    /\ ppc = "deliver"
    /\ c \in targets
    /\ conn[c] # "stalled"
    /\ targets' = targets \ {c}
    /\ live' = IF conn[c] = "up" THEN [live EXCEPT ![c] = Append(@, fed)] ELSE live
    /\ sinks' = IF conn[c] = "up" THEN sinks ELSE sinks \ {c}
    /\ UNCHANGED <<pty, fed, ring, closed, killed, ppc, handler, conn>>

\* One sink's write, outside the lock.  A write that fails or times out removes
\* that sink only, and tears its connection down.
PumpDeliver(c) ==
    /\ ppc = "deliver"
    /\ c \in targets
    /\ targets' = targets \ {c}
    /\ \/ /\ conn[c] = "up"
          /\ live' = [live EXCEPT ![c] = Append(@, fed)]
          /\ UNCHANGED <<sinks, conn>>
       \/ /\ conn[c] # "up"
          /\ sinks' = sinks \ {c}
          /\ conn' = [conn EXCEPT ![c] = IF @ = "stalled" THEN "down" ELSE @]
          /\ UNCHANGED live
    /\ UNCHANGED <<pty, fed, ring, closed, killed, ppc, handler>>

PumpNext ==
    /\ ppc = "deliver"
    /\ targets = {}
    /\ ppc' = "read"
    /\ UNCHANGED <<pty, session, targets, handler, live, conn>>

\* The critical section of Close.
Close ==
    /\ closed' = TRUE
    /\ sinks' = {}

\* Fault: pump stops at the exit of the shell, with output left to read.
PumpEOFEarly ==
    /\ ppc = "read"
    /\ exited \/ closed
    /\ Close
    /\ ppc' = "done"
    /\ UNCHANGED <<pty, fed, ring, killed, targets, handler, live, conn>>

\* Read fails: the PTY hung up after its last chunk, or Close closed it.
PumpEOF ==
    /\ ppc = "read"
    /\ closed \/ (exited /\ fed = out)
    /\ Close
    /\ ppc' = "done"
    /\ UNCHANGED <<pty, fed, ring, killed, targets, handler, live, conn>>

\* Remove, reapIdle or a lost creation race close the session.
Kill ==
    /\ ~closed
    /\ Close
    /\ killed' = TRUE
    /\ UNCHANGED <<pty, fed, ring, pump, handler, live, conn>>

-----------------------------------------------------------------------------
(* relayTerminalSession, one goroutine per connection, and its watcher.    *)

\* What writeScrollback sends, message by message.
Replay == IF ring = << >> THEN << >> ELSE <<Clear>> \o ring

\* Fault: the chunk pump has in hand is taken into the snapshot.
AttachWithChunkInHand(c) ==
    /\ cpc[c] = "new"
    /\ ~closed
    /\ sinks' = sinks \cup {c}
    /\ from' = [from EXCEPT ![c] = IF ppc = "feed" THEN fed + 1 ELSE fed]
    /\ todo' = [todo EXCEPT ![c] = IF ppc = "feed" THEN Append(Replay, fed + 1) ELSE Replay]
    /\ cpc' = [cpc EXCEPT ![c] = "replay"]
    /\ UNCHANGED <<pty, fed, ring, closed, killed, pump, live, conn>>

\* Attach, under Session.mu: the sink is added and the ring copied at once.
Attach(c) ==
    /\ cpc[c] = "new"
    /\ ~closed
    /\ sinks' = sinks \cup {c}
    /\ from' = [from EXCEPT ![c] = fed]
    /\ todo' = [todo EXCEPT ![c] = Replay]
    /\ cpc' = [cpc EXCEPT ![c] = "replay"]
    /\ UNCHANGED <<pty, fed, ring, closed, killed, pump, live, conn>>

\* ErrSessionGone.
AttachFails(c) ==
    /\ cpc[c] = "new"
    /\ closed
    /\ cpc' = [cpc EXCEPT ![c] = "gone"]
    /\ conn' = [conn EXCEPT ![c] = "down"]
    /\ UNCHANGED <<pty, session, pump, todo, from, live>>

\* One message of writeScrollback; the next one goes to the read loop.
WriteReplay(c) ==
    /\ cpc[c] = "replay"
    /\ todo[c] # << >>
    /\ conn[c] = "up"
    /\ todo' = [todo EXCEPT ![c] = Tail(@)]
    /\ UNCHANGED <<pty, session, pump, cpc, from, live, conn>>

ReplayDone(c) ==
    /\ cpc[c] = "replay"
    /\ todo[c] = << >>
    /\ cpc' = [cpc EXCEPT ![c] = "relay"]
    /\ UNCHANGED <<pty, session, pump, todo, from, live, conn>>

\* Fault: the watcher waits for the exit of the shell instead of Done.
WatcherOnExit(c) ==
    /\ cpc[c] \in {"replay", "relay"}
    /\ exited
    /\ conn[c] \in {"up", "stalled"}
    /\ conn' = [conn EXCEPT ![c] = "ended"]
    /\ UNCHANGED <<pty, session, pump, handler, live>>

\* The watcher: Done is closed, so the connection is closed with 1000.
WatcherFires(c) ==
    /\ cpc[c] \in {"replay", "relay"}
    /\ closed
    /\ conn[c] \in {"up", "stalled"}
    /\ conn' = [conn EXCEPT ![c] = "ended"]
    /\ UNCHANGED <<pty, session, pump, handler, live>>

\* A keystroke cannot be written to the PTY any more: the read loop breaks and
\* closes the connection, with 1000 too, whatever pump still has to deliver.
KeystrokeFails(c) ==
    /\ cpc[c] = "relay"
    /\ exited \/ closed
    /\ conn[c] \in {"up", "stalled"}
    /\ conn' = [conn EXCEPT ![c] = "hungup"]
    /\ UNCHANGED <<pty, session, pump, handler, live>>

\* A replay write failed or timed out, or the read loop saw the connection end:
\* the handler returns, and its deferred detach removes the sink.
Leave(c) ==
    /\ \/ cpc[c] = "replay" /\ todo[c] # << >> /\ conn[c] # "up"
       \/ cpc[c] = "relay" /\ conn[c] \in {"down", "ended", "hungup"}
    /\ cpc' = [cpc EXCEPT ![c] = "gone"]
    /\ conn' = [conn EXCEPT ![c] = IF @ = "stalled" THEN "down" ELSE @]
    /\ sinks' = sinks \ {c}
    /\ UNCHANGED <<pty, fed, ring, closed, killed, pump, todo, from, live>>

-----------------------------------------------------------------------------
PumpStep == PumpRead \/ PumpFeed \/ (\E c \in Conn : PumpDeliver(c)) \/ PumpNext \/ PumpEOF

HandlerStep(c) == WriteReplay(c) \/ ReplayDone(c) \/ Leave(c)

Next ==
    \/ PumpStep
    \/ \E c \in Conn : Attach(c) \/ AttachFails(c) \/ HandlerStep(c) \/ WatcherFires(c)
    \/ \E c \in Conn : Network(c) \/ KeystrokeFails(c)
    \/ ShellWrites \/ ShellExits \/ Kill

Spec == Init /\ [][Next]_vars

\* pump and the handlers run whenever they can, since every write they make has
\* a deadline.  The shell, the clients (who may type or not) and the network owe
\* nothing.
FairSpec ==
    /\ Spec
    /\ WF_vars(PumpStep)
    /\ \A c \in Conn : WF_vars(HandlerStep(c)) /\ WF_vars(WatcherFires(c))

=============================================================================
