-------------------------- MODULE SessionStreamProps --------------------------
(***************************************************************************)
(* What a watcher of a terminal session may rely on.                       *)
(***************************************************************************)
EXTENDS SessionStream

\* Types of the variables of SessionStream.
TypeOK ==
    /\ out \in 0..MaxChunk /\ exited \in BOOLEAN
    /\ fed \in 0..MaxChunk
    /\ ring \in Seq(1..MaxChunk)
    /\ sinks \in SUBSET Conn /\ targets \in SUBSET Conn
    /\ closed \in BOOLEAN /\ killed \in BOOLEAN
    /\ ppc \in {"read", "feed", "deliver", "done"}
    /\ cpc \in [Conn -> {"new", "replay", "relay", "gone"}]
    /\ todo \in [Conn -> Seq(1..MaxChunk \cup {Clear})]
    /\ from \in [Conn -> 0..MaxChunk]
    /\ live \in [Conn -> Seq(1..MaxChunk)]
    /\ conn \in [Conn -> {"up", "stalled", "down", "ended", "hungup"}]

\* The live stream of a connection begins with the chunk after its replay and
\* has no gap and no repetition: no chunk is both replayed and sent live, and
\* none is lost between the two (the comments in pump and Attach on why both
\* hold Session.mu).
LiveFollowsReplay ==
    \A c \in Conn : \A i \in 1..Len(live[c]) : live[c][i] = from[c] + i

\* An attached connection has every chunk up to the present, except the one
\* pump is delivering: a chunk is not skipped for anyone because another
\* connection stalled, came or left.
NothingSkipped ==
    \A c \in sinks :
        from[c] + Len(live[c]) = IF c \in targets THEN fed - 1 ELSE fed

\* A connection that is told "session ended" after the shell exited by itself
\* has been sent all the shell ever wrote: pump drains the PTY and delivers the
\* last chunk before it announces the end.  This is the watcher's promise: a
\* client that types at a shell that is gone is hung up on by its own read loop
\* ("hungup") and may miss the end of the output.
FinalOutputSent ==
    \A c \in Conn :
        conn[c] = "ended" /\ ~killed => from[c] + Len(live[c]) = out

\* The replay a handler still has to write ends with the chunk right before the
\* live stream, and the ring holds the newest chunks without a gap.
RingIsRecent ==
    /\ Len(ring) = IF fed < RingSize THEN fed ELSE RingSize
    /\ \A i \in 1..Len(ring) : ring[i] = fed - Len(ring) + i

ReplayIsRecent ==
    \A c \in Conn : \A i \in 1..Len(todo[c]) :
        todo[c][i] # Clear => todo[c][i] = from[c] - Len(todo[c]) + i

\* The inductive invariant behind SessionStreamProofs: what is in flight to each
\* connection, and what has happened by the time the session is closed.
InFlight ==
    /\ fed <= out
    /\ ppc = "feed" => fed < out
    /\ ppc # "deliver" => targets = {}
    /\ \A c \in targets : from[c] + Len(live[c]) = fed - 1
    /\ \A c \in sinks \cup targets : cpc[c] # "new"
    /\ \A c \in Conn : cpc[c] = "new" => live[c] = << >> /\ todo[c] = << >> /\ conn[c] # "ended"
    /\ \A c \in Conn : cpc[c] \in {"replay", "relay"} /\ conn[c] \in {"up", "stalled"} /\ ~closed
                       => c \in sinks

EndIsFinal ==
    /\ closed /\ ~killed =>
          /\ exited /\ fed = out /\ ppc = "done"
          /\ \A c \in Conn : cpc[c] \in {"replay", "relay"} /\ conn[c] \in {"up", "stalled"}
                             => from[c] + Len(live[c]) = out
    /\ \A c \in Conn : conn[c] = "ended" => closed
    /\ closed => sinks = {}
    /\ ppc = "done" => closed

StreamInv ==
    /\ TypeOK
    /\ LiveFollowsReplay
    /\ NothingSkipped
    /\ FinalOutputSent
    /\ RingIsRecent
    /\ ReplayIsRecent
    /\ InFlight
    /\ EndIsFinal

\* Replay's comment: what a freshly attached client must be sent "before the
\* live stream starts".
ReplayBeforeLive == \A c \in Conn : live[c] # << >> => todo[c] = << >>

-----------------------------------------------------------------------------
\* A stalled connection never freezes the session: every chunk the shell wrote
\* is read, unless the session is closed (pump's comment on bounded sinks).
NeverFrozen == \A n \in 1..MaxChunk : out = n ~> fed >= n \/ closed

\* Once the session is over every handler returns and pump ends.
AllLeave ==
    closed ~> ppc = "done" /\ \A c \in Conn : cpc[c] \in {"new", "gone"}
=============================================================================
