------------------------------ MODULE ClaudePanel ------------------------------
(***************************************************************************)
(* The Claude Code tab (components/ClaudeCode/ClaudeCode.tsx): its status,  *)
(* the job that installs or updates the CLI, whose id is kept in            *)
(* localStorage across tab switches, the version check and its preference.  *)
(* A request is answered in one step and its answer read in another; what   *)
(* is asked by a tab that was left is answered too, and sets nothing of the *)
(* tab that is mounted later.                                               *)
(***************************************************************************)
EXTENDS Naturals, FiniteSets

CONSTANTS MaxJobs, MaxCalls, MaxVisits,  \* bounds: jobs, requests on their way, visits of the tab
          None

VARIABLES
    tab,     \* the mounted tab's state
    stored,  \* the job id in localStorage, or 0
    calls,   \* requests on their way
    server   \* the CLI installed, the jobs and those that are known
vars == <<tab, stored, calls, server>>

Over == {"ok", "failed"}
\* useClaudeInstallJob's state, of the view that is shown.
NoJob == [id |-> 0, status |-> "none"]
Kept(s) == IF s = 0 THEN NoJob ELSE [id |-> s, status |-> "starting"]
Busy == tab.job.id # 0 /\ tab.job.status \notin Over

\* A request of this visit, for the view that sends it.
Call(k, q) == [kind |-> k, visit |-> tab.visit, view |-> tab.view, ask |-> q, at |-> "sent", reply |-> None]
Room == Cardinality(calls) < MaxCalls
Mine(c) == c.visit = tab.visit
OfView(c) == Mine(c) /\ c.view = tab.view
Waiting(k) == {c \in calls : c.kind = k /\ Mine(c)}
\* The effect that polls a job sends one request at once.
PollOf(t) == IF t.job.id = 0 THEN {} ELSE {[kind |-> "poll", visit |-> t.visit, view |-> t.view, ask |-> t.job.id, at |-> "sent", reply |-> None]}
NoPolls == {c \in calls : c.kind # "poll"}

\* A visit: nothing is known yet but load is on its way.
Fresh(v) == [visit |-> v, loading |-> TRUE, view |-> "none", inst |-> FALSE, job |-> NoJob,
             version |-> FALSE, hide |-> None]

Init ==
    /\ tab = Fresh(1) /\ stored = 0
    /\ calls = {[kind |-> "load", visit |-> 1, view |-> "none", ask |-> None, at |-> "sent", reply |-> None]}
    /\ server \in [installed : BOOLEAN, hide : BOOLEAN, jobs : {<<>>}, known : {1}]

-----------------------------------------------------------------------------
\* load and loadMiseVersion of handleRefresh, and of a view that is done.
Load == IF tab.loading THEN {} ELSE {Call("load", None)}
Version == {Call("version", None)}

Refresh ==
    /\ ~tab.loading /\ Room
    /\ tab' = [tab EXCEPT !.loading = TRUE]
    /\ calls' = calls \cup Load \cup (IF tab.hide = FALSE THEN Version ELSE {})
    /\ UNCHANGED <<stored, server>>

\* The three answers of load.  Which view is mounted follows from them; a
\* view takes up the stored job as it mounts.  New preferences look at the
\* version, or drop it.
Loaded(c) ==
    /\ c.kind = "load" /\ c.at # "sent" /\ Mine(c) /\ UNCHANGED <<stored, server>>
    /\ LET v == IF c.at = "failed" THEN "error" ELSE IF c.reply.installed THEN "installed" ELSE "absent"
           job == IF v = "error" THEN NoJob ELSE IF v = tab.view THEN tab.job ELSE Kept(stored)
           t == [tab EXCEPT !.loading = FALSE, !.view = v, !.job = job,
                            !.hide = IF v = "error" THEN @ ELSE c.reply.hide,
                            !.inst = IF v = "error" THEN @ ELSE c.reply.installed,
                            !.version = @ /\ (v = "error" \/ (v = "installed" /\ ~c.reply.hide))]
       IN /\ tab' = t
          /\ calls' = (IF v = tab.view THEN calls \ {c} ELSE (NoPolls \ {c}) \cup PollOf(t)) \cup (IF v = "installed" /\ ~c.reply.hide THEN {Call("version", None)} ELSE {})

VersionRead(c) ==
    /\ c.kind = "version" /\ c.at # "sent" /\ Mine(c)
    /\ tab' = [tab EXCEPT !.version = c.at # "failed"]
    /\ calls' = calls \ {c} /\ UNCHANGED <<stored, server>>

\* handleToggleHideVersionCheck: shown at once, taken back if it fails.
Toggle ==
    /\ tab.hide # None /\ Room
    /\ tab' = [tab EXCEPT !.hide = ~@, !.version = @ /\ tab.hide]
    /\ calls' = calls \cup {Call("toggle", ~tab.hide)}
                      \cup (IF tab.hide /\ tab.inst THEN Version ELSE {})
    /\ UNCHANGED <<stored, server>>

Toggled(c) ==
    /\ c.kind = "toggle" /\ c.at # "sent" /\ Mine(c)
    /\ tab' = IF c.at = "failed" THEN [tab EXCEPT !.hide = ~c.ask, !.version = @ /\ c.ask] ELSE tab
    /\ calls' = calls \ {c} /\ UNCHANGED <<stored, server>>

-----------------------------------------------------------------------------
\* start: the buttons of NotInstalled and of UpdateBanner.  Only a job that is
\* known makes the view busy: before the answer it may be asked for again.  (Of
\* the requests on their way each has the lowest number that was free.)
Start ==
    /\ tab.view = "absent" \/ (tab.view = "installed" /\ tab.version)
    /\ tab.job.id = 0 /\ Room /\ Cardinality(DOMAIN server.jobs) < MaxJobs
    /\ \E q \in 1 .. MaxCalls :
          /\ \A r \in 1 .. q : r < q <=> \E c \in calls : c.kind = "start" /\ c.ask = r
          /\ calls' = calls \cup {Call("start", q)}
    /\ UNCHANGED <<tab, stored, server>>

\* Fault: it is stored only by the view that is still there.
StartedHere(c) ==
    /\ c.kind = "start" /\ c.at # "sent" /\ UNCHANGED server
    /\ stored' = IF c.at = "failed" \/ ~OfView(c) THEN stored ELSE c.reply
    /\ LET t == IF c.at = "failed" \/ ~OfView(c) THEN tab
                ELSE [tab EXCEPT !.job = [id |-> c.reply, status |-> "starting"]]
       IN tab' = t /\ calls' = IF t = tab THEN calls \ {c} ELSE (NoPolls \ {c}) \cup PollOf(t)

\* The id is stored even when the view that asked for it is gone.
Started(c) ==
    /\ c.kind = "start" /\ c.at # "sent" /\ UNCHANGED server
    /\ stored' = IF c.at = "failed" THEN stored ELSE c.reply
    /\ LET t == IF c.at = "failed" \/ ~OfView(c) THEN tab
                ELSE [tab EXCEPT !.job = [id |-> c.reply, status |-> "starting"]]
       IN tab' = t /\ calls' = IF t = tab THEN calls \ {c} ELSE (NoPolls \ {c}) \cup PollOf(t)

Poll ==
    /\ Busy /\ Room
    /\ calls' = calls \cup PollOf(tab)
    /\ UNCHANGED <<tab, stored, server>>

\* Fault: the job that is not known any more is kept.
PolledKeeping(c) ==
    /\ c.kind = "poll" /\ c.at # "sent" /\ OfView(c) /\ UNCHANGED server
    /\ LET t == IF c.at = "failed" \/ c.reply = "404" THEN tab ELSE [tab EXCEPT !.job.status = c.reply]
       IN /\ tab' = t /\ stored' = IF c.at = "done" /\ c.reply = "404" THEN 0 ELSE stored
          /\ calls' = IF t = tab THEN calls \ {c}
                      ELSE NoPolls \cup (IF t.job.status = "running" THEN PollOf(t) ELSE {})

\* An answer of the running effect.  A job that is not known any more (404)
\* is dropped.
Polled(c) ==
    /\ c.kind = "poll" /\ c.at # "sent" /\ OfView(c) /\ UNCHANGED server
    /\ LET t == IF c.at = "failed" THEN tab
                ELSE [tab EXCEPT !.job = IF c.reply = "404" THEN NoJob ELSE [id |-> @.id, status |-> c.reply]]
       IN /\ tab' = t /\ stored' = IF c.at = "done" /\ c.reply = "404" THEN 0 ELSE stored
          /\ calls' = IF t = tab THEN calls \ {c}
                      ELSE NoPolls \cup (IF t.job.status = "running" THEN PollOf(t) ELSE {})

\* The panel is closed, at any time.
CloseJob ==
    /\ tab.job.id # 0
    /\ tab' = [tab EXCEPT !.job = NoJob] /\ stored' = 0
    /\ calls' = NoPolls /\ UNCHANGED server

\* reload, once it succeeded: handleUpdated or handleInstalled.
Reload ==
    /\ tab.job.status = "ok" /\ Room
    /\ tab' = [tab EXCEPT !.job = NoJob, !.loading = TRUE] /\ stored' = 0
    /\ calls' = NoPolls \cup Load \cup (IF tab.view = "installed" THEN Version ELSE {})
    /\ UNCHANGED server

\* Another tab is shown, and this one again: what it asked is not heard of,
\* but for a start.
Visit ==
    /\ tab.visit < MaxVisits
    /\ LET t == Fresh(tab.visit + 1) IN
       /\ tab' = t
       /\ calls' = {c \in calls : c.kind = "start"} \cup
                   {[kind |-> "load", visit |-> t.visit, view |-> "none", ask |-> None, at |-> "sent", reply |-> None]}
    /\ UNCHANGED <<stored, server>>

-----------------------------------------------------------------------------
Answer(c, r) == calls' = (calls \ {c}) \cup {[c EXCEPT !.at = "done", !.reply = r]}

Serve(c) ==
    /\ c.at = "sent" /\ UNCHANGED <<tab, stored>>
    /\ \/ calls' = (calls \ {c}) \cup {[c EXCEPT !.at = "failed"]} /\ UNCHANGED server
       \/ /\ c.kind = "load" /\ UNCHANGED server
          /\ Answer(c, [installed |-> server.installed, hide |-> server.hide])
       \/ c.kind = "version" /\ Answer(c, "ok") /\ UNCHANGED server
       \/ c.kind = "toggle" /\ Answer(c, "ok") /\ server' = [server EXCEPT !.hide = c.ask]
       \/ c.kind = "poll" /\ Answer(c, IF c.ask >= server.known THEN server.jobs[c.ask] ELSE "404") /\ UNCHANGED server
       \/ LET n == Cardinality(DOMAIN server.jobs) + 1 IN
          /\ c.kind = "start" /\ n <= MaxJobs /\ Answer(c, n)
          /\ server' = [server EXCEPT !.jobs = [j \in 1 .. n |-> IF j = n THEN "running" ELSE server.jobs[j]]]

JobEnds(j) ==
    /\ server.jobs[j] = "running"
    /\ \E r \in Over : server' = [server EXCEPT !.jobs[j] = r, !.installed = @ \/ r = "ok"]
    /\ UNCHANGED <<tab, stored, calls>>

\* webmanager is restarted: its jobs are gone.
Forget ==
    /\ server.known <= Cardinality(DOMAIN server.jobs)
    /\ server' = [server EXCEPT !.known = Cardinality(DOMAIN server.jobs) + 1,
                                !.jobs = [j \in DOMAIN @ |-> IF @[j] = "running" THEN "failed" ELSE @[j]]]
    /\ UNCHANGED <<tab, stored, calls>>

Next ==
    \/ Refresh \/ Toggle \/ Start \/ Poll \/ CloseJob \/ Reload \/ Visit \/ Forget
    \/ \E c \in calls : Loaded(c) \/ VersionRead(c) \/ Toggled(c) \/ Started(c) \/ Polled(c) \/ Serve(c)
    \/ \E j \in DOMAIN server.jobs : JobEnds(j)

Spec == Init /\ [][Next]_vars

-----------------------------------------------------------------------------
\* Types of the variables; what is asked and answered is of its kind.
Views == {"none", "error", "absent", "installed"}
CallsOf(k) ==
    [kind : {k}, visit : Nat, view : Views, at : {"sent", "done", "failed"},
     ask : CASE k = "toggle" -> BOOLEAN [] k \in {"poll", "start"} -> Nat [] OTHER -> {None},
     reply : CASE k = "load" -> {None} \cup [installed : BOOLEAN, hide : BOOLEAN]
               [] k = "start" -> {None} \cup Nat
               [] k = "poll" -> {None, "404", "running"} \cup Over
               [] OTHER -> {None, "ok"}]
IsCall(c) == c.kind \in {"load", "version", "toggle", "start", "poll"} /\ c \in CallsOf(c.kind)
Tabs ==
    [visit : Nat, loading : BOOLEAN, view : Views, inst : BOOLEAN, version : BOOLEAN, hide : BOOLEAN \cup {None},
     job : [id : 0 .. MaxJobs, status : {"none", "starting", "running"} \cup Over]]
TypeOK ==
    /\ tab \in Tabs /\ stored \in 0 .. MaxJobs
    /\ \A c \in calls : IsCall(c)
    /\ \E n \in 0 .. MaxJobs :
          server \in [installed : BOOLEAN, hide : BOOLEAN, jobs : [1 .. n -> {"running"} \cup Over], known : Nat]

\* The tab waits only for what is on its way.
NothingStuck == tab.loading => Waiting("load") # {}

\* The comment on the storage key: a tab that waits for a job leaves a job id
\* behind when it is switched away from.  (The id of another job, when a start
\* asked for by an earlier visit was answered after its own.)
JobIsKept == tab.job.id # 0 => stored # 0

\* A job that was started is the one the next visit follows, even when the
\* visit that started it is over.
KeepsStart == \A c \in calls \ calls' : (c.kind = "start" /\ c.at = "done") => stored' = c.reply

\* Inductive: an answer says what was asked for; and a job that is named
\* anywhere is one of the server's, though it may not be known any more.
AnswerIsSound(c) ==
    /\ c.at = "done" => c.reply # None
    /\ c.kind = "start" /\ c.at = "done" => c.reply \in DOMAIN server.jobs
    /\ c.kind = "poll" => c.ask \in DOMAIN server.jobs
AnswersAreSound == \A c \in calls : AnswerIsSound(c)
IdsAreOfJobs == \A id \in {tab.job.id, stored} : id # 0 => id \in DOMAIN server.jobs

IndInv == TypeOK /\ NothingStuck /\ JobIsKept /\ AnswersAreSound /\ IdsAreOfJobs
===============================================================================
