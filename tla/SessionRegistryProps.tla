------------------------- MODULE SessionRegistryProps -------------------------
(***************************************************************************)
(* What the session registry must guarantee.                               *)
(***************************************************************************)
EXTENDS SessionRegistry

\* Where each kind of goroutine can be.
PcOK ==
    /\ pc \in [Goroutine -> {"none", "idle", "spawn", "insert", "attach", "relay",
                             "pinLookup", "pinSet", "reap", "read", "close", "kill"}]
    /\ \A c \in Client  : pc[c] \in {"idle", "spawn", "insert", "attach", "relay", "close", "kill"}
    /\ \A a \in Admin   : pc[a] \in {"idle", "pinLookup", "pinSet", "close", "kill"}
    /\ \A s \in Session : pc[s] \in {"none", "read", "close", "kill"}
    /\ pc[Reaper] \in {"idle", "reap", "close", "kill"}

\* The values each variable takes.
Shapes ==
    /\ sessions \in [Name -> Session \cup {NoSession}]
    /\ forgetter \in [Session -> {"none", "waiting", "finished"}]
    /\ name \in [Session -> Name \cup {NoName}]
    /\ life \in [Session -> {"none", "open", "closed"}]
    /\ shell \in [Session -> {"none", "running", "exited", "reaped"}]
    /\ pinned \in [Session -> BOOLEAN]
    /\ sinks \in [Session -> SUBSET Client]
    /\ idle \in [Session -> 0..IdleTimeout]
    /\ held \in [Goroutine -> Session \cup {NoSession}]
    /\ existing \in [Client -> Session \cup {NoSession}]
    /\ arg \in [Client \cup Admin -> Name \cup {NoName}]
    /\ pinArg \in [Client \cup Admin -> BOOLEAN]
    /\ toReap \in SUBSET Session
    /\ conn \in [Client -> {"up", "down", "ended"}]

\* A local variable that is about to be used has been assigned.
Assigned ==
    /\ \A g \in Goroutine :
          pc[g] \in {"insert", "attach", "relay", "pinSet", "close", "kill", "read"} => held[g] \in Session
    /\ \A c \in Client : pc[c] \in {"close", "kill"} => existing[c] \in Session
    /\ \A g \in Client \cup Admin : pc[g] \in {"spawn", "insert", "pinLookup"} => arg[g] \in Name

\* Types of the variables of SessionRegistry.
TypeOK == Shapes /\ PcOK /\ Assigned

\* Renames, creations and forgetting never separate the map from the sessions:
\* the session an entry names carries exactly that name (Rename changes both
\* under one lock), so no session is addressable under two names.
KeyIsName == \A n \in Name : sessions[n] # NoSession => name[sessions[n]] = n

\* A running session is never lost: it is in the map, or its creator has still
\* to insert it, or somebody who took it out of the map has still to close it.
\* (A lost creation race, a stale name in forgetWhenDone or a rename that
\* drops an entry would leave a shell nobody can reach.)
Doomed(s) ==
    \/ s \in toReap
    \/ \E g \in Goroutine : pc[g] = "close" /\ held[g] = s

Starting(s) == \E c \in Client : pc[c] = "insert" /\ held[c] = s

NoOrphan ==
    \A s \in Session : life[s] = "open" => s \in Registered \/ Starting(s) \/ Doomed(s)

\* A session somebody took out of the map to close it is not back in the map:
\* no client can still find it by name and then lose it at once.
DoomedIsUnlisted ==
    \A s \in Registered :
        /\ s \notin toReap
        /\ \A g \in Goroutine \ {s} : pc[g] \in {"close", "kill"} => held[g] # s

\* A handler that relays an open session receives its output: its sink is in
\* the session's set until the connection is gone.  Attach adds the sink under
\* the lock that Close takes, so a sink is never added to a closed session.
RelayHasSink ==
    /\ \A c \in Client : pc[c] = "relay" /\ conn[c] = "up" =>
           \/ c \in sinks[held[c]]
           \/ life[held[c]] = "closed"
    /\ \A s \in Session : life[s] # "open" => sinks[s] = {}

\* While GetOrCreate holds a session it has started and not yet inserted, no
\* other goroutine knows it, so it still has the name it was started for and
\* only its own pump may close it.
PrivateWhileStarting ==
    \A c \in Client : pc[c] = "insert" =>
        LET s == held[c] IN
        /\ name[s] = arg[c]
        /\ s \notin Registered
        /\ s \notin toReap
        /\ forgetter[s] = "none"
        /\ \A g \in Goroutine \ {c, s} : held[g] # s
        /\ \A d \in Client : existing[d] # s

\* Whatever a goroutine or the map refers to has been started, and a session's
\* own pump works on that session.
OnlyStartedKnown ==
    /\ \A n \in Name : sessions[n] \in Session => life[sessions[n]] # "none"
    /\ \A g \in Goroutine : held[g] \in Session => life[held[g]] # "none"
    /\ \A c \in Client : existing[c] \in Session => life[existing[c]] # "none"
    /\ \A s \in toReap : life[s] # "none"
    /\ \A s \in Session : life[s] = "none" => forgetter[s] = "none" /\ pc[s] = "none"
    /\ \A s \in Session : held[s] \in {s, NoSession}

\* Between two rounds the reaper owes nobody a Close.
RoundComplete == pc[Reaper] = "idle" => toReap = {}

\* forgetWhenDone finishes only for a session that ended and is not listed.
ForgottenIsOver ==
    \A s \in Session : forgetter[s] = "finished" => life[s] = "closed" /\ s \notin Registered

\* The inductive invariant behind the theorems of SessionRegistryProofs.
IndInv ==
    /\ TypeOK
    /\ KeyIsName
    /\ NoOrphan
    /\ DoomedIsUnlisted
    /\ RelayHasSink
    /\ PrivateWhileStarting
    /\ OnlyStartedKnown
    /\ RoundComplete
    /\ ForgottenIsOver

\* What the comments of Registry.Run and Session.reapCheck say: the loop never
\* closes a pinned session, nor one that has a client attached right now.
ReapedIsIdle ==
    pc[Reaper] = "close" /\ life[held[Reaper]] = "open" =>
        ~pinned[held[Reaper]] /\ sinks[held[Reaper]] = {}

-----------------------------------------------------------------------------
\* A session enters the map once, when its creator inserts it, and is watched by
\* forgetWhenDone from then on; when that goroutine has finished, the session is
\* over and in the map under no name, whatever it was renamed to and whoever
\* takes it out meanwhile.  Only its creator may list a session that ended
\* before it was inserted, and that entry is forgotten like any other.
NeverRelisted ==
    [][\A s \in Session :
          /\ s \in Registered' /\ s \notin Registered =>
                 forgetter[s] = "none" /\ forgetter'[s] = "waiting" /\ life[s] # "none"
          /\ forgetter[s] # "none" => forgetter'[s] # "none"
          /\ forgetter'[s] = "finished" => life'[s] = "closed" /\ s \notin Registered']_vars

-----------------------------------------------------------------------------
\* A session that ended is eventually forgotten, whatever it was renamed to
\* meanwhile: its name becomes free for a new session.
EndedIsForgotten == \A s \in Session : life[s] = "closed" ~> s \notin Registered

\* Every shell is reaped in the end once its session is closed or it exits by
\* itself: no zombie and no shell survives its session.
ShellIsReaped ==
    \A s \in Session : life[s] = "closed" \/ shell[s] = "exited" ~> shell[s] = "reaped"

\* A handler never hangs on a dead session: its connection ends.
HandlerLeaves ==
    \A c \in Client, s \in Session :
        pc[c] = "relay" /\ held[c] = s /\ life[s] = "closed" ~> pc[c] # "relay" \/ held[c] # s

\* A session nobody attaches to or pins is eventually collected.
IdleIsCollected ==
    \A s \in Session :
        life[s] = "open" ~> life[s] = "closed" \/ pinned[s] \/ sinks[s] # {}
-----------------------------------------------------------------------------
(* The registry implements SessionDirectory.                               *)

Stage(s) ==
    CASE life[s] = "none"                                   -> "fresh"
      [] life[s] # "none" /\ Starting(s)                    -> "starting"
      [] life[s] # "none" /\ ~Starting(s) /\ s \in Registered -> "listed"
      [] OTHER                                              -> "dropped"

Directory == INSTANCE SessionDirectory WITH
    dir   <- sessions,
    stage <- [s \in Session |-> Stage(s)],
    ended <- {s \in Session : life[s] = "closed"}

\* Under every interleaving of handlers, reaper, pumps and forgetters, lookups
\* behave as those of one atomic directory.
ImplementsDirectory == Directory!Spec

\* ... and nothing dropped, started or ended is left in that state for good.
ImplementsFairDirectory == Directory!FairSpec
=============================================================================
