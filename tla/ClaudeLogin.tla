------------------------------ MODULE ClaudeLogin ------------------------------
(***************************************************************************)
(* Signing in to the CLI without a terminal: the panel                      *)
(* (components/ClaudeCode/LoginPanel.tsx), the logout button beside it      *)
(* (ClaudeCode.tsx) and the manager that runs one `claude auth login` at a  *)
(* time (internal/claudecode/login.go).  The panel comes and goes with the  *)
(* tab and with the login state it was loaded with.                         *)
(***************************************************************************)
EXTENDS Naturals, FiniteSets

CONSTANTS MaxStarts, MaxCalls  \* bounds: logins started, requests on their way

VARIABLES
    panel,   \* LoginPanel's state; "at" is the mount it belongs to, 0 when there is none
    logout,  \* LogoutButton: "none", "closed", "asked" or "busy"
    calls,   \* requests on their way
    server,  \* the manager's sessions, the current one last, and whether logged in
    lost     \* history: sessions whose start was answered to no panel, whose cancel failed, or of
             \* which such an answer was lost
vars == <<panel, logout, calls, server, lost>>

Session == 1 .. MaxStarts
Idle(m) == [at |-> m, session |-> 0, phase |-> "idle", starting |-> FALSE, submitting |-> FALSE, mounts |-> m]
Gone == [panel EXCEPT !.at = 0, !.session = 0, !.phase = "idle", !.starting = FALSE, !.submitting = FALSE]
Current == Cardinality(DOMAIN server.sessions)
Running(s) == s \in DOMAIN server.sessions /\ server.sessions[s] = "running"

Call(k, s) == [kind |-> k, session |-> s, mount |-> panel.at, reply |-> "none"]
Room == Cardinality(calls) < MaxCalls
Mine(c) == c.mount = panel.at

\* Fault: the polls of the effect before are not voided.
BecomesKeeping(p, others) ==
    /\ panel' = p
    /\ calls' = others \cup (IF p.phase = "running" /\ p.session \notin {0, panel.session}
                             THEN {[kind |-> "poll", session |-> p.session, mount |-> p.at, reply |-> "none"]} ELSE {})
                      \cup (IF panel.session \notin {0, p.session} THEN {Call("cancel", panel.session)} ELSE {})

\* The panel becomes p: an effect whose phase or session changed ends, which
\* voids its polls, and polls at once if it is running; a session that is no
\* longer held is cancelled.
Becomes(p, others) ==
    LET same == p.session = panel.session /\ p.phase = panel.phase
        kept == IF same THEN others ELSE {c \in others : c.kind # "poll"}
    IN /\ panel' = p
       /\ calls' = kept \cup (IF ~same /\ p.phase = "running" /\ p.session # 0
                              THEN {[kind |-> "poll", session |-> p.session, mount |-> p.at, reply |-> "none"]} ELSE {})
                        \cup (IF panel.session \notin {0, p.session} THEN {Call("cancel", panel.session)} ELSE {})

Init ==
    /\ \E l \in BOOLEAN :
          /\ server = [sessions |-> <<>>, login |-> l]
          /\ panel = Idle(IF l THEN 0 ELSE 1)
          /\ logout = IF l THEN "closed" ELSE "none"
    /\ calls = {} /\ lost = {}

-----------------------------------------------------------------------------
\* handleStart; the starting flag keeps it from being asked twice.
Start ==
    /\ panel.at # 0 /\ panel.phase = "idle" /\ ~panel.starting /\ Room
    /\ Current + Cardinality({c \in calls : c.kind = "start"}) < MaxStarts
    /\ panel' = [panel EXCEPT !.starting = TRUE]
    /\ calls' = calls \cup {Call("start", 0)}
    /\ UNCHANGED <<logout, server, lost>>

Started(c) ==
    /\ c.kind = "start" /\ c.reply # "none" /\ UNCHANGED <<logout, server>>
    /\ IF ~Mine(c)
       THEN /\ lost' = IF c.reply = "ok" THEN lost \cup {c.session} ELSE lost
            /\ calls' = calls \ {c} /\ UNCHANGED panel
       ELSE /\ Becomes(IF c.reply = "ok" THEN [panel EXCEPT !.starting = FALSE, !.session = c.session, !.phase = "running"]
                       ELSE [panel EXCEPT !.starting = FALSE], calls \ {c})
            /\ UNCHANGED lost

Poll ==
    /\ panel.phase = "running" /\ Room
    /\ calls' = calls \cup {Call("poll", panel.session)}
    /\ UNCHANGED <<panel, logout, server, lost>>

PhaseOf(r) == CASE r = "in" -> "success" [] r = "out" -> "failed" [] r = "404" -> "expired" [] OTHER -> panel.phase

\* An answer of the running effect: the exit code decides, an unknown session
\* has expired, any other failure is only shown.
Polled(c) ==
    /\ c.kind = "poll" /\ c.reply # "none" /\ UNCHANGED <<logout, server, lost>>
    /\ Becomes([panel EXCEPT !.phase = PhaseOf(c.reply)], calls \ {c})

\* handleReset, from expired and failed.
Reset ==
    /\ panel.phase \in {"expired", "failed"}
    /\ Becomes([panel EXCEPT !.session = 0, !.phase = "idle"], calls)
    /\ UNCHANGED <<logout, server, lost>>

SubmitCode ==
    /\ panel.phase = "running" /\ ~panel.submitting /\ Room
    /\ panel' = [panel EXCEPT !.submitting = TRUE]
    /\ calls' = calls \cup {Call("code", panel.session)}
    /\ UNCHANGED <<logout, server, lost>>

\* Fault: submitting ends only when the code was taken.
CodeAnsweredOk(c) ==
    /\ c.kind = "code" /\ c.reply # "none" /\ calls' = calls \ {c}
    /\ panel' = IF Mine(c) /\ c.reply = "ok" THEN [panel EXCEPT !.submitting = FALSE] ELSE panel
    /\ UNCHANGED <<logout, server, lost>>

CodeAnswered(c) ==
    /\ c.kind = "code" /\ c.reply # "none" /\ calls' = calls \ {c}
    /\ panel' = IF Mine(c) THEN [panel EXCEPT !.submitting = FALSE] ELSE panel
    /\ UNCHANGED <<logout, server, lost>>

Cancelled(c) ==
    /\ c.kind = "cancel" /\ c.reply # "none" /\ calls' = calls \ {c}
    /\ lost' = IF c.reply = "failed" THEN lost \cup {c.session} ELSE lost
    /\ UNCHANGED <<panel, logout, server>>

\* Fault: nothing is cancelled when it unmounts.
UnmountOnly ==
    /\ panel.at # 0
    /\ panel' = Gone /\ calls' = {c \in calls : c.kind # "poll"}
    /\ UNCHANGED <<logout, server, lost>>

\* The tab is left, or the state that was loaded has no panel.
Unmount ==
    /\ panel.at # 0
    /\ Becomes(Gone, calls)
    /\ UNCHANGED <<logout, server, lost>>

\* The tab, loaded as logged out or in.
Mount ==
    /\ panel.at = 0 /\ logout # "busy"
    /\ IF server.login THEN logout' = "closed" /\ UNCHANGED panel
       ELSE panel.mounts < MaxStarts /\ panel' = Idle(panel.mounts + 1) /\ logout' = "none"
    /\ UNCHANGED <<calls, server, lost>>

\* LogoutButton: asked, confirmed, answered.
Logout ==
    /\ \/ logout = "closed" /\ logout' = "asked" /\ UNCHANGED calls
       \/ logout = "asked" /\ logout' = "closed" /\ UNCHANGED calls
       \/ logout = "asked" /\ Room /\ logout' = "busy" /\ calls' = calls \cup {[Call("logout", 0) EXCEPT !.mount = 0]}
    /\ UNCHANGED <<panel, server, lost>>

LoggedOut(c) ==
    /\ c.kind = "logout" /\ c.reply # "none" /\ calls' = calls \ {c}
    /\ logout' = IF c.reply = "failed" THEN "asked" ELSE "closed"
    /\ UNCHANGED <<panel, server, lost>>

-----------------------------------------------------------------------------
\* The manager.  Start kills what still runs; Status and SubmitCode know only
\* the current session; Cancel kills only the session it names.
Answer(c, r, s) == calls' = (calls \ {c}) \cup {[c EXCEPT !.reply = r, !.session = s]}

CancelServed(c) ==
    /\ Answer(c, "ok", c.session)
    /\ server' = IF c.session = Current /\ Running(Current) THEN [server EXCEPT !.sessions[Current] = "out"] ELSE server

StartServed(c) ==
    LET n == Current + 1 IN
    /\ Answer(c, "ok", n)
    /\ server' = [server EXCEPT !.sessions = [s \in 1 .. n |-> IF s = n THEN "running"
                                                               ELSE IF @[s] = "running" THEN "out" ELSE @[s]]]

Serve(c) ==
    /\ c.reply = "none" /\ UNCHANGED <<panel, logout, lost>>
    /\ \/ Answer(c, "failed", c.session) /\ UNCHANGED server
       \/ c.kind = "start" /\ StartServed(c)
       \/ c.kind = "poll" /\ Answer(c, IF c.session = Current THEN server.sessions[Current] ELSE "404", c.session) /\ UNCHANGED server
       \/ c.kind = "code" /\ Answer(c, IF c.session = Current /\ Running(Current) THEN "ok" ELSE "failed", c.session) /\ UNCHANGED server
       \/ c.kind = "cancel" /\ CancelServed(c)
       \/ c.kind = "logout" /\ Answer(c, "ok", 0) /\ server' = [server EXCEPT !.login = FALSE]

\* What was done is not heard of: to whoever asked the request has failed.
AnswerLost(c) ==
    /\ c.reply \notin {"none", "failed"}
    /\ Answer(c, "failed", IF c.kind = "start" THEN 0 ELSE c.session)
    /\ lost' = IF c.kind = "start" THEN lost \cup {c.session} ELSE lost
    /\ UNCHANGED <<panel, logout, server>>

\* The process exits: logged in, or refused, or after loginSessionTimeout.
Exits ==
    /\ Running(Current)
    /\ \E r \in {"in", "out"} : server' = [server EXCEPT !.sessions[Current] = r, !.login = @ \/ r = "in"]
    /\ UNCHANGED <<panel, logout, calls, lost>>

Next ==
    \/ Start \/ Poll \/ Reset \/ SubmitCode \/ Unmount \/ Mount \/ Logout \/ Exits
    \/ \E c \in calls : Started(c) \/ Polled(c) \/ CodeAnswered(c) \/ Cancelled(c) \/ LoggedOut(c) \/ Serve(c) \/ AnswerLost(c)

Spec == Init /\ [][Next]_vars

-----------------------------------------------------------------------------
\* Types of the variables.
Panels == [at : 0 .. MaxStarts, session : 0 .. MaxStarts, phase : {"idle", "running", "success", "failed", "expired"},
           starting : BOOLEAN, submitting : BOOLEAN, mounts : 0 .. MaxStarts]
Requests == [kind : {"start", "poll", "code", "cancel", "logout"}, session : 0 .. MaxStarts, mount : 0 .. MaxStarts,
             reply : {"none", "ok", "failed", "404", "running", "in", "out"}]
TypeOK ==
    /\ panel \in Panels /\ logout \in {"none", "closed", "asked", "busy"} /\ lost \subseteq Session
    /\ calls \subseteq Requests /\ IsFiniteSet(calls)
    /\ \E n \in 0 .. MaxStarts : server \in [sessions : [1 .. n -> {"running", "in", "out"}], login : BOOLEAN]

\* The panel waits only for what is on its way.
NothingStuck ==
    /\ panel.starting => \E c \in calls : c.kind = "start" /\ Mine(c)
    /\ panel.submitting => \E c \in calls : c.kind = "code" /\ Mine(c)
    /\ logout = "busy" => \E c \in calls : c.kind = "logout"

\* The cancel effect's comment: a login that still runs is held by a panel, or
\* about to be cancelled, or its start is about to be answered; all but those
\* whose start was answered to a panel that was gone or whose answer never came,
\* and those whose cancel failed.
NothingLeftRunning ==
    \A s \in Session : Running(s) =>
        \/ panel.session = s \/ s \in lost
        \/ \E c \in calls : c.kind \in {"start", "cancel"} /\ c.session = s

\* What the panel says has ended has ended: it does not give up a login that
\* runs because of an answer about another one.
EndIsTrue == panel.phase \in {"success", "failed", "expired"} => ~Running(panel.session)

\* Inductive: what names a session names one that was started; of those the
\* newest alone may run.
OnlyNewestRuns == \A s \in Session : Running(s) => s = Current
PanelIsSound ==
    IF panel.phase = "idle" THEN panel.session = 0
    ELSE panel.at # 0 /\ panel.session \in DOMAIN server.sessions

\* Inductive: a start names its session once that runs, and no answer says of a
\* session that runs that it does not; a poll is one of what the panel shows.
CallIsSound(c) ==
    /\ c.kind = "start" => c.mount # 0 /\ IF c.reply = "ok" THEN c.session \in DOMAIN server.sessions
                                       ELSE c.session = 0 /\ c.reply \in {"none", "failed"}
    /\ c.kind = "cancel" => /\ c.session \in DOMAIN server.sessions /\ c.reply \in {"none", "ok", "failed"}
                            /\ c.reply = "ok" => ~Running(c.session)
    /\ c.kind = "poll" => panel.phase = "running" /\ c.session = panel.session /\ (c.reply \in {"in", "out", "404"} => ~Running(c.session))
CallsAreSound == \A c \in calls : CallIsSound(c)

\* Inductive: what is started is within the bound.
Unserved == {c \in calls : c.kind = "start" /\ c.reply = "none"}
StartsFit == Current + Cardinality(Unserved) <= MaxStarts

IndInv ==
    /\ TypeOK /\ NothingStuck /\ NothingLeftRunning /\ EndIsTrue
    /\ OnlyNewestRuns /\ PanelIsSound /\ CallsAreSound /\ StartsFit
===============================================================================
