------------------------------ MODULE LoginDialog ------------------------------
(***************************************************************************)
(* The dialog in which the real `claude` CLI is signed in                   *)
(* (ClaudeCode/InteractiveLoginDialog.tsx): it starts a session, keeps a    *)
(* socket to it over drops, polls whether onboarding is complete, and takes *)
(* the session down when it goes.  One dialog, from opening to the end of   *)
(* everything it set off.                                                   *)
(***************************************************************************)
EXTENDS Naturals

CONSTANTS MaxStarts,  \* a bound on the sessions started
          None

VARIABLES
    phase,
    refs,      \* closingRef, unmountedRef, completedRef, probingRef, baselineCompletedRef, the session id
    gen,       \* startGenRef
    ws,        \* the socket: "none", "connecting", "open" or "closed"
    timers,    \* those set: "reconnect", "autoclose", "cancel"
    asked,     \* an unlock prompt asked for by the dialog's own button is up
    starts, probes, polls, cancels,  \* requests on their way, with their answers
    server     \* the manager's session, how many there were, whether onboarded, locked; history: the
               \* sessions of whose start the answer was lost, or whose cancel was refused or lost

ui == <<phase, refs, gen, ws, timers, asked>>
net == <<starts, probes, polls, cancels>>
vars == <<ui, net, server>>

Phase == {"starting", "connecting", "running", "reconnecting", "locked", "completed", "error"}

Init ==
    /\ phase = "starting" /\ gen = 1 /\ ws = "none" /\ timers = {} /\ asked = FALSE
    /\ refs = [closing |-> FALSE, unmounted |-> FALSE, completed |-> FALSE, probing |-> FALSE,
               baseline |-> None, scheduled |-> FALSE, id |-> 0]
    /\ starts = {[gen |-> 1, id |-> None]} /\ probes = {} /\ polls = {} /\ cancels = {}
    /\ server = [id |-> 0, count |-> 0, onboarded |-> FALSE, locked |-> FALSE, lost |-> {}]

Gone == refs.unmounted
Allowed == ~refs.closing /\ ~refs.unmounted /\ ~refs.completed

-----------------------------------------------------------------------------
\* startSession, from the error phase.
Restart ==
    /\ ~Gone /\ phase = "error" /\ gen < MaxStarts
    /\ gen' = gen + 1 /\ phase' = "starting" /\ timers' = timers \ {"reconnect"}
    /\ starts' = starts \cup {[gen |-> gen + 1, id |-> None]}
    /\ UNCHANGED <<refs, ws, asked, probes, polls, cancels, server>>

\* A start supersedes the session that the manager still holds.
StartServed ==
    \E s \in starts :
        /\ s.id = None
        /\ server' = [server EXCEPT !.id = server.count + 1, !.count = @ + 1]
        /\ starts' = (starts \ {s}) \cup {[s EXCEPT !.id = server.count + 1]}
        /\ UNCHANGED <<ui, probes, polls, cancels>>

\* Fault: the answer to a dialog that has gone is ignored.
StartAnsweredLate ==
    \E s \in starts :
        /\ s.id # None /\ starts' = starts \ {s}
        /\ IF s.gen = gen /\ Allowed
           THEN refs' = [refs EXCEPT !.id = s.id] /\ phase' = "connecting" /\ ws' = "connecting"
           ELSE UNCHANGED <<refs, phase, ws>>
        /\ UNCHANGED <<gen, timers, asked, probes, polls, cancels, server>>

StartAnswered ==
    \E s \in starts :
        /\ s.id # None /\ starts' = starts \ {s}
        /\ IF s.gen = gen /\ ~refs.closing /\ ~Gone
           THEN /\ refs' = [refs EXCEPT !.id = s.id] /\ phase' = "connecting" /\ ws' = "connecting"
                /\ UNCHANGED cancels
           ELSE /\ cancels' = IF s.gen = gen THEN cancels \cup {s.id} ELSE cancels
                /\ UNCHANGED <<refs, phase, ws>>
        /\ UNCHANGED <<gen, timers, asked, probes, polls, server>>

\* Refused, or lost on either way: of a session that was started the dialog
\* has no id then.
StartFails ==
    \E s \in starts :
        /\ starts' = starts \ {s}
        /\ phase' = IF s.gen = gen /\ ~Gone THEN "error" ELSE phase
        /\ server' = IF s.id = None THEN server ELSE [server EXCEPT !.lost = @ \cup {s.id}]
        /\ UNCHANGED <<refs, gen, ws, timers, asked, probes, polls, cancels>>

-----------------------------------------------------------------------------
\* scheduleReconnect, in a step that sets phase to p.
Schedule(p) == phase' = p /\ timers' = IF Allowed THEN timers \cup {"reconnect"} ELSE timers

\* reconnect: ask whether the session is alive, unless somebody does already.
Reconnect(p) ==
    /\ phase' = p
    /\ IF refs.id = 0 \/ refs.probing \/ ~Allowed THEN UNCHANGED <<refs, probes, timers>>
       ELSE /\ timers' = timers \ {"reconnect"}
            /\ IF ws \in {"connecting", "open"} THEN UNCHANGED <<refs, probes>>
               ELSE /\ refs' = [refs EXCEPT !.probing = TRUE]
                    /\ probes' = probes \cup {[gen |-> gen, id |-> refs.id]}

TimerFires ==
    /\ "reconnect" \in timers
    /\ phase' = phase
    /\ IF refs.id = 0 \/ refs.probing \/ ~Allowed \/ ws \in {"connecting", "open"}
       THEN timers' = timers \ {"reconnect"} /\ UNCHANGED <<refs, probes>>
       ELSE Reconnect(phase)
    /\ UNCHANGED <<gen, ws, asked, starts, polls, cancels, server>>

\* onForeground: the window is focused, shown again or back online; or the button.
Foreground ==
    /\ ~Gone /\ phase = "reconnecting" /\ Reconnect(phase)
    /\ UNCHANGED <<gen, ws, asked, starts, polls, cancels, server>>

\* A probe settles: no answer; refused, the unlock prompt declined; or whether
\* the session is alive, in which case the socket is dialled again.
\* Fault: without an answer the next step is forgotten to be free again.
ProbeFailsHolding ==
    \E q \in probes :
        /\ probes' = probes \ {q}
        /\ IF q.gen = gen /\ Allowed THEN Schedule(phase) ELSE UNCHANGED <<phase, timers>>
        /\ UNCHANGED <<refs, gen, ws, asked, starts, polls, cancels, server>>

ProbeFails ==
    \E q \in probes :
        /\ probes' = probes \ {q} /\ refs' = [refs EXCEPT !.probing = FALSE]
        /\ IF q.gen = gen /\ Allowed THEN Schedule(phase) ELSE UNCHANGED <<phase, timers>>
        /\ UNCHANGED <<gen, ws, asked, starts, polls, cancels, server>>

ProbeLocked ==
    \E q \in probes :
        /\ server.locked
        /\ probes' = probes \ {q} /\ refs' = [refs EXCEPT !.probing = FALSE]
        /\ phase' = IF q.gen = gen /\ Allowed THEN "locked" ELSE phase
        /\ UNCHANGED <<gen, ws, timers, asked, starts, polls, cancels, server>>

ProbeAnswered ==
    \E q \in probes :
        /\ server' = [server EXCEPT !.locked = FALSE]
        /\ probes' = probes \ {q} /\ refs' = [refs EXCEPT !.probing = FALSE]
        /\ IF q.gen # gen \/ ~Allowed THEN UNCHANGED <<phase, ws>>
           ELSE IF server.id # q.id THEN phase' = "error" /\ UNCHANGED ws
           ELSE phase' = "reconnecting" /\ ws' = "connecting"
        /\ UNCHANGED <<gen, timers, asked, starts, polls, cancels>>

\* onopen, and onclose however the socket ends.
SocketOpens ==
    /\ ws = "connecting" /\ server.id = refs.id /\ ~server.locked
    /\ ws' = "open" /\ phase' = IF phase = "completed" THEN phase ELSE "running"
    /\ UNCHANGED <<refs, gen, timers, asked, net, server>>

SocketCloses ==
    /\ ws \in {"connecting", "open"} /\ ws' = "closed"
    /\ IF Allowed THEN Schedule("reconnecting") ELSE UNCHANGED <<phase, timers>>
    /\ UNCHANGED <<refs, gen, asked, net, server>>

\* handleUnlockAndReconnect.
AskUnlock ==
    /\ ~Gone /\ phase = "locked" /\ ~asked /\ asked' = TRUE
    /\ UNCHANGED <<phase, refs, gen, ws, timers, net, server>>

\* Whatever the dialog came to meanwhile.  The effect on phase drops the
\* timer of the automatic close with the completed phase.
Unlocked ==
    /\ asked /\ asked' = FALSE
    /\ server' = [server EXCEPT !.locked = FALSE]
    /\ IF Gone THEN UNCHANGED <<phase, refs, probes, timers>>
       ELSE IF phase = "completed"
       THEN phase' = "reconnecting" /\ timers' = timers \ {"autoclose"} /\ UNCHANGED <<refs, probes>>
       ELSE Reconnect("reconnecting")
    /\ UNCHANGED <<gen, ws, starts, polls, cancels>>

UnlockDeclined ==
    /\ asked /\ asked' = FALSE
    /\ UNCHANGED <<phase, refs, gen, ws, timers, net, server>>

-----------------------------------------------------------------------------
\* The status poll: its answer counts whenever it comes.
Poll ==
    /\ ~Gone /\ refs.id # 0 /\ phase \notin {"starting", "completed"}
    /\ server.onboarded \notin polls
    /\ polls' = polls \cup {server.onboarded}
    /\ UNCHANGED <<ui, starts, probes, cancels, server>>

PollAnswered ==
    \E done \in polls :
        LET first == IF refs.baseline = None THEN done ELSE refs.baseline
            flip == done /\ ~first /\ ~refs.completed
        IN
        /\ polls' = polls \ {done}
        /\ refs' = [refs EXCEPT !.baseline = first, !.completed = @ \/ flip, !.scheduled = @ \/ (flip /\ ~Gone)]
        /\ IF flip /\ ~Gone
           THEN phase' = "completed" /\ timers' = (timers \ {"reconnect"}) \cup (IF refs.scheduled THEN {} ELSE {"autoclose"})
           ELSE UNCHANGED <<phase, timers>>
        /\ UNCHANGED <<gen, ws, asked, starts, probes, cancels, server>>

-----------------------------------------------------------------------------
\* handleManualClose, by a click or by itself once completed: Ctrl+C, the
\* cancel two seconds on, and the parent takes the dialog away.
Close ==
    /\ refs' = [refs EXCEPT !.closing = TRUE, !.unmounted = TRUE]
    /\ ws' = "none" /\ timers' = {"cancel"}
    /\ UNCHANGED <<phase, gen, asked, net, server>>

ManualClose == ~Gone /\ Close
AutoClose == "autoclose" \in timers /\ Close

\* The parent takes it away for another reason.
\* Fault: and nothing is cancelled.
UnmountOnly ==
    /\ ~Gone
    /\ refs' = [refs EXCEPT !.unmounted = TRUE] /\ ws' = "none" /\ timers' = {}
    /\ UNCHANGED <<phase, gen, asked, net, server>>

Unmount ==
    /\ ~Gone
    /\ refs' = [refs EXCEPT !.unmounted = TRUE] /\ ws' = "none" /\ timers' = {}
    /\ cancels' = IF refs.id = 0 THEN cancels ELSE cancels \cup {refs.id}
    /\ UNCHANGED <<phase, gen, asked, starts, probes, polls, server>>

\* cancelSession.
CancelFires ==
    /\ "cancel" \in timers /\ timers' = timers \ {"cancel"}
    /\ cancels' = IF refs.id = 0 THEN cancels ELSE cancels \cup {refs.id}
    /\ UNCHANGED <<phase, refs, gen, ws, asked, starts, probes, polls, server>>

\* It is asked once, and whatever becomes of it is ignored: with the prompt
\* declined, the server out of reach or the request lost, the session stays
\* until its limit.
CancelServed ==
    \E i \in cancels :
        /\ cancels' = cancels \ {i}
        /\ server' = [server EXCEPT !.id = IF @ = i THEN 0 ELSE @, !.locked = FALSE]
        /\ UNCHANGED <<ui, starts, probes, polls>>

CancelFails ==
    \E i \in cancels :
        /\ cancels' = cancels \ {i}
        /\ server' = [server EXCEPT !.lost = @ \cup {i}]
        /\ UNCHANGED <<ui, starts, probes, polls>>

\* The CLI ends, its ten minutes are over, or the server restarts; the wizard
\* is finished, here or elsewhere; the unlock expires.
SessionEnds == server.id # 0 /\ server' = [server EXCEPT !.id = 0] /\ UNCHANGED <<ui, net>>
Onboarded == ~server.onboarded /\ server' = [server EXCEPT !.onboarded = TRUE] /\ UNCHANGED <<ui, net>>
Expires == ~server.locked /\ server' = [server EXCEPT !.locked = TRUE] /\ UNCHANGED <<ui, net>>

Next ==
    \/ Restart \/ StartServed \/ StartAnswered \/ StartFails
    \/ TimerFires \/ Foreground \/ ProbeFails \/ ProbeLocked \/ ProbeAnswered
    \/ SocketOpens \/ SocketCloses \/ AskUnlock \/ Unlocked \/ UnlockDeclined
    \/ Poll \/ PollAnswered \/ ManualClose \/ AutoClose \/ Unmount
    \/ CancelFires \/ CancelServed \/ CancelFails \/ SessionEnds \/ Onboarded \/ Expires

Spec == Init /\ [][Next]_vars

-----------------------------------------------------------------------------
\* Types of the variables.
RefsType == [closing : BOOLEAN, unmounted : BOOLEAN, completed : BOOLEAN, probing : BOOLEAN,
             baseline : BOOLEAN \cup {None}, scheduled : BOOLEAN, id : 0 .. MaxStarts]
ServerType == [id : 0 .. MaxStarts, count : 0 .. MaxStarts, onboarded : BOOLEAN, locked : BOOLEAN,
               lost : SUBSET (1 .. MaxStarts)]
TypeOK ==
    /\ phase \in Phase /\ gen \in 1 .. MaxStarts /\ ws \in {"none", "connecting", "open", "closed"}
    /\ timers \subseteq {"reconnect", "autoclose", "cancel"} /\ asked \in BOOLEAN
    /\ refs \in RefsType /\ server \in ServerType
    /\ starts \subseteq [gen : 1 .. MaxStarts, id : {None} \cup 1 .. MaxStarts]
    /\ probes \subseteq [gen : 1 .. MaxStarts, id : 1 .. MaxStarts]
    /\ cancels \subseteq 1 .. MaxStarts /\ polls \subseteq BOOLEAN

\* A dialog that says it is reconnecting is: a timer is set, the session being
\* asked for or the socket being dialled; once it is locked or has failed it
\* says so and offers the way on.
NeverStuck == phase = "reconnecting" /\ Allowed => "reconnect" \in timers \/ probes # {} \/ ws = "connecting"

\* Whatever way the dialog goes, and whenever, the CLI it started does not stay
\* behind, unless the answer to its start never came or its one cancel failed.
NothingLeftRunning ==
    Gone /\ starts = {} /\ cancels = {} /\ timers = {} /\ server.id # 0 => server.id \in server.lost

\* Inductive: there is one start at a time, of this generation, and only the
\* newest session is the manager's; one probe, while probingRef says so; a
\* dialog that is gone keeps no timer but the one for the cancel.
OneAtATime ==
    /\ \A s \in starts : s.gen = gen /\ (s.id = None \/ s.id = server.count) /\ (s.id = None => server.count < gen)
    /\ \A s, t \in starts : s = t
    /\ \A p, q \in probes : p = q
    /\ \A q \in probes : q.gen = gen
    /\ refs.probing <=> probes # {}
    /\ server.id \in {0, server.count} /\ server.count <= gen
    /\ refs.closing => Gone
    /\ IF Gone THEN timers \subseteq {"cancel"} ELSE "cancel" \notin timers

\* Inductive: a dialog that is shown goes one way at a time, to a session it
\* has an id of unless it is starting one: it starts, waits for the timer,
\* asks, has a socket or an unlock prompt up.
Dialled == ws \in {"connecting", "open"}
OneWay == ~Gone =>
    /\ starts # {} => /\ phase \in {"starting", "completed"}
                      /\ "reconnect" \notin timers /\ probes = {} /\ ~Dialled /\ ~asked
    /\ "reconnect" \in timers => probes = {} /\ ~Dialled /\ ~asked /\ refs.id # 0
    /\ probes # {} => ~Dialled /\ ~asked /\ refs.id # 0
    /\ Dialled => ~asked /\ refs.id # 0
    /\ asked => phase \in {"locked", "completed"} /\ refs.id # 0
    /\ phase = "error" => starts = {} /\ "reconnect" \notin timers /\ probes = {} /\ ~Dialled /\ ~asked
    /\ phase = "locked" => starts = {} /\ "reconnect" \notin timers /\ probes = {} /\ ~Dialled /\ refs.id # 0
    /\ phase = "completed" => refs.completed
    /\ phase = "reconnecting" /\ Allowed => ws # "open"
    /\ ("reconnect" \in timers \/ probes # {}) /\ Allowed => phase = "reconnecting"

\* Inductive: a session that runs is the dialog's, or is going to be when its
\* start is answered; of a dialog that is gone, it is about to be cancelled.
SessionIsHeld == server.id # 0 /\ server.id \notin server.lost =>
    \/ server.id \in cancels
    \/ \E s \in starts : s.id = server.id
    \/ server.id = refs.id /\ (~Gone \/ "cancel" \in timers)

IndInv == TypeOK /\ NeverStuck /\ NothingLeftRunning /\ OneAtATime /\ OneWay /\ SessionIsHeld
=============================================================================
