------------------------------- MODULE MiseJobs -------------------------------
(***************************************************************************)
(* The mise tab (components/Mise/Mise.tsx and JobPanel.tsx): the list being *)
(* read, the dialog that is asked before a job starts, and the job whose    *)
(* panel is open, which runs on the backend (internal/mise/jobs.go) and is  *)
(* polled.  Which tool a job is about, and what it does to it, is left out. *)
(* A request is answered in one step and its answer read in another.        *)
(***************************************************************************)
EXTENDS Naturals, Sequences, FiniteSets

CONSTANTS MaxStored,          \* maxJobs
          MaxJobs, MaxCalls,  \* bounds: jobs started, requests on their way
          None

VARIABLES
    page,    \* what the tab holds: the job, the list, the dialogs
    calls,   \* requests on their way, answered or not
    server   \* the jobs' states, in the order of their starts, those the store
             \* has, those past jobTTL, and how many ran at a time at most

vars == <<page, calls, server>>

Over == {"ok", "failed"}
Busy == page.job # None /\ page.job.status \notin Over

\* A request, with what it asks for and, once it is answered, the answer.
Call(k, q) == [kind |-> k, ask |-> q, done |-> FALSE, reply |-> None]
Room == Cardinality(calls) < MaxCalls
Sent(c) == calls \cup {c}
Waiting(k) == {c \in calls : c.kind = k}

Init ==
    /\ page = [job |-> None, loading |-> TRUE, dialog |-> FALSE, panel |-> "closed"]
    /\ calls = {Call("load", None)}
    /\ server = [jobs |-> <<>>, stored |-> {}, old |-> 0, peak |-> 0]

-----------------------------------------------------------------------------
\* load: once at a time.
Load ==
    /\ ~page.loading /\ Room
    /\ page' = [page EXCEPT !.loading = TRUE]
    /\ calls' = Sent(Call("load", None))
    /\ UNCHANGED server

\* The list arrives, of load or of loadTools; or the request failed.
Listed(c) ==
    /\ c.kind \in {"load", "tools"} /\ c.done
    /\ page' = [page EXCEPT !.loading = @ /\ c.kind # "load"]
    /\ calls' = calls \ {c}
    /\ UNCHANGED server

\* Starting a job; another start may still be unanswered.
MayStart == Room /\ Len(server.jobs) + Cardinality(Waiting("start")) < MaxJobs
StartCall == Call("start", Cardinality(Waiting("start")))

\* installTool, for a recommendation or from the search, and
\* handleReactivate.
Start ==
    /\ ~Busy /\ MayStart
    /\ calls' = Sent(StartCall)
    /\ UNCHANGED <<page, server>>

\* handleDelete, handleDeactivate.
Ask ==
    /\ ~Busy /\ ~page.dialog
    /\ page' = [page EXCEPT !.dialog = TRUE]
    /\ UNCHANGED <<calls, server>>

\* confirmDelete, confirmDeactivate: busy is not looked at again.
Confirm ==
    /\ page.dialog /\ MayStart
    /\ page' = [page EXCEPT !.dialog = FALSE]
    /\ calls' = Sent(StartCall)
    /\ UNCHANGED server

Cancel ==
    /\ page.dialog
    /\ page' = [page EXCEPT !.dialog = FALSE]
    /\ UNCHANGED <<calls, server>>

\* The answer to a start: its job shows in the panel, maybe in place of
\* another whose polls are void, and its first poll is sent.
Started(c) ==
    /\ c.kind = "start" /\ c.done
    /\ IF c.reply = None THEN calls' = calls \ {c} /\ UNCHANGED page
       ELSE LET j == [id |-> c.reply, status |-> "starting"] IN
            /\ page' = [page EXCEPT !.job = j]
            /\ calls' = ({d \in calls \ {c} : d.kind # "poll"} \cup {Call("poll", j.id)})
    /\ UNCHANGED server

\* The interval: polls while the job is not seen over.
Poll ==
    /\ Busy /\ Room
    /\ calls' = Sent([Call("poll", page.job.id) EXCEPT !.reply = "again"])
    /\ UNCHANGED <<page, server>>

\* Fault: the answers of an effect that was cleaned up count.
PolledLate(c) ==
    /\ c.kind = "poll" /\ c.done /\ UNCHANGED server
    /\ IF c.reply = None \/ page.job = None \/ page.job.id # c.ask THEN calls' = calls \ {c} /\ UNCHANGED page
       ELSE LET j == [page.job EXCEPT !.status = c.reply] IN
            /\ page' = [page EXCEPT !.job = j]
            /\ calls' = (calls \ {c}) \cup (IF c.reply \in Over THEN {Call("tools", None)} ELSE {})

\* An answer of the running effect: a job that is over ends it, which voids
\* the polls still out, and reads the tools again.  The first status starts
\* the effect again, which polls at once.
Polled(c) ==
    /\ c.kind = "poll" /\ c.done /\ UNCHANGED server
    /\ IF c.reply = None THEN calls' = calls \ {c} /\ UNCHANGED page
       ELSE LET j == [page.job EXCEPT !.status = c.reply]
                again == j.status = "running" /\ page.job.status = "starting"
                rest == IF j.status = page.job.status THEN calls \ {c} ELSE {d \in calls : d.kind # "poll"}
            IN /\ page' = [page EXCEPT !.job = j]
               /\ calls' = (rest \cup (IF c.reply \in Over THEN {Call("tools", None)} ELSE {})
                                  \cup (IF again THEN {Call("poll", j.id)} ELSE {}))

\* The panel is closed: the job goes on without it.
CloseJob ==
    /\ page.job # None
    /\ page' = [page EXCEPT !.job = None, !.panel = "closed"]
    /\ calls' = ({[c EXCEPT !.ask = IF c.kind = "restart" /\ @ = "panel" THEN "gone" ELSE @] :
                       c \in {d \in calls : d.kind # "poll"}})
    /\ UNCHANGED server

-----------------------------------------------------------------------------
\* Restarting code-server, offered by the panel of a job that went well:
\* asked, confirmed, under way.
PanelRestart ==
    /\ page.job # None
    /\ \/ page.job.status = "ok" /\ page.panel = "closed" /\ page' = [page EXCEPT !.panel = "asked"] /\ UNCHANGED calls
       \/ page.panel = "asked" /\ page' = [page EXCEPT !.panel = "closed"] /\ UNCHANGED calls
       \/ /\ page.panel = "asked" /\ Room
          /\ page' = [page EXCEPT !.panel = "restarting"] /\ calls' = Sent(Call("restart", "panel"))
    /\ UNCHANGED server

\* handleRestartConfirm goes on, if its panel is still there.
Restarted(c) ==
    /\ c.kind = "restart" /\ c.done /\ calls' = calls \ {c}
    /\ page' = IF c.ask = "panel" THEN [page EXCEPT !.panel = "closed"] ELSE page
    /\ UNCHANGED server

-----------------------------------------------------------------------------
(* The backend's store of jobs, which other tabs use too.                  *)

Running == {j \in DOMAIN server.jobs : server.jobs[j] = "running"}

\* Fault: what is over the cap goes by age alone.
PruneOldest(old) ==
    LET live == {j \in server.stored : j \in Running \/ j > old} IN
    live \ {j \in live : Cardinality({i \in live : i < j}) + MaxStored < Cardinality(live)}

\* pruneLocked: what is over and past jobTTL goes, then the oldest of what is
\* over, down to the cap.
Prune(old) ==
    LET live == {j \in server.stored : j \in Running \/ j > old}
        over == live \ Running
    IN live \ {j \in over : Cardinality({i \in over : i < j}) + MaxStored < Cardinality(live)}

\* StartWithCallbackEnv: the store is pruned before the job is in it.
StartJob ==
    \E old \in server.old..Len(server.jobs) :
        LET n == Cardinality(Running) + 1 IN
        server' = [jobs |-> Append(server.jobs, "running"), stored |-> Prune(old) \cup {Len(server.jobs) + 1},
                   old |-> old, peak |-> IF n > server.peak THEN n ELSE server.peak]

\* The backend answers, or the request fails.
Answer(c, r) == calls' = (calls \ {c}) \cup {[c EXCEPT !.done = TRUE, !.reply = r]}

Serve(c) ==
    /\ ~c.done /\ UNCHANGED page
    /\ \/ Answer(c, None) /\ UNCHANGED server
       \/ c.kind \in {"load", "tools", "restart"} /\ Answer(c, "ok") /\ UNCHANGED server
       \/ c.kind = "poll" /\ c.ask \in server.stored /\ Answer(c, server.jobs[c.ask]) /\ UNCHANGED server
       \/ c.kind = "start" /\ Answer(c, Len(server.jobs) + 1) /\ StartJob

\* Another tab starts a job.
Elsewhere ==
    /\ Len(server.jobs) + Cardinality(Waiting("start")) < MaxJobs /\ StartJob
    /\ UNCHANGED <<page, calls>>

\* A job ends, and its outcome is there to be polled.
JobEnds(j) ==
    /\ server.jobs[j] = "running"
    /\ \E r \in Over : server' = [server EXCEPT !.jobs[j] = r]
    /\ UNCHANGED <<page, calls>>

\* webmanager is restarted: its jobs are gone.
Forget ==
    /\ server.stored # {}
    /\ server' = [server EXCEPT !.stored = {},
                     !.jobs = [j \in DOMAIN @ |-> IF j \in Running THEN "failed" ELSE @[j]]]
    /\ UNCHANGED <<page, calls>>

Next ==
    \/ Load \/ Start \/ Ask \/ Confirm \/ Cancel \/ Poll \/ CloseJob
    \/ PanelRestart \/ Elsewhere \/ Forget
    \/ \E c \in calls : Listed(c) \/ Started(c) \/ Polled(c) \/ Restarted(c) \/ Serve(c)
    \/ \E j \in DOMAIN server.jobs : JobEnds(j)

Spec == Init /\ [][Next]_vars

-----------------------------------------------------------------------------
\* Types of the variables.
Pages == [job : {None} \cup [id : Nat, status : {"starting", "running"} \cup Over], loading : BOOLEAN, dialog : BOOLEAN,
          panel : {"closed", "asked", "restarting"}]
Requests(k) ==
    CASE k \in {"load", "tools"} -> [kind : {k}, ask : {None}, done : BOOLEAN, reply : {None, "ok"}]
      [] k = "start"   -> [kind : {k}, ask : Nat, done : BOOLEAN, reply : {None} \cup Nat]
      [] k = "poll"    -> [kind : {k}, ask : Nat, done : BOOLEAN, reply : {None, "again", "running"} \cup Over]
      [] k = "restart" -> [kind : {k}, ask : {"panel", "gone"}, done : BOOLEAN, reply : {None, "ok"}]
Servers == [jobs : Seq({"running"} \cup Over), stored : SUBSET Nat, old : Nat, peak : Nat]
TypeOK ==
    /\ page \in Pages /\ server \in Servers
    /\ \A c \in calls : c.kind \in {"load", "tools", "start", "poll", "restart"} /\ c \in Requests(c.kind)
    /\ page.job # None => page.job.id \in DOMAIN server.jobs
    /\ Len(server.jobs) <= MaxJobs /\ server.stored \subseteq DOMAIN server.jobs

\* Whatever the tab disables a button for is under way: the list being
\* read, a restart.
NothingStuck ==
    /\ page.loading => Waiting("load") # {}
    /\ page.panel = "restarting" => \E c \in Waiting("restart") : c.ask = "panel"

\* A job the panel has shown over is not shown running again by a poll that
\* was answered late, of this job or of another one.
NewestStep ==
    (page.job # None /\ page'.job # None /\ page'.job.id = page.job.id /\ page.job.status \in Over)
        => page'.job = page.job

\* A job that runs can be polled, however many others are started and over,
\* and the store exceeds its cap by the job just started at most, but where
\* more than that run at a time.
StoreIsSound ==
    /\ Running \subseteq server.stored
    /\ Cardinality(server.stored) <= MaxStored + 1 \/ Cardinality(server.stored) <= server.peak

\* Inductive: polls are of the job that is shown, which is not over; the job a
\* start was answered with is shown by nobody yet; there are jobs for the starts
\* to come, and the store is of the size that was left by the last one.
PollsAreOfShown ==
    \A c \in Waiting("poll") :
        /\ Busy /\ c.ask = page.job.id
        /\ c.done => c.reply # "again"
StartsAreNew ==
    \A c \in Waiting("start") : c.done /\ c.reply # None =>
        /\ c.reply \in DOMAIN server.jobs
        /\ page.job # None => page.job.id # c.reply
        /\ \A d \in Waiting("start") : d.done /\ d.reply = c.reply => d = c
Unserved == {c \in Waiting("start") : ~c.done}
StartsHaveRoom == IsFiniteSet(calls) /\ Len(server.jobs) + Cardinality(Unserved) <= MaxJobs
RunningAreCounted == Cardinality(Running) <= server.peak

IndInv == TypeOK /\ NothingStuck /\ StoreIsSound /\ PollsAreOfShown /\ StartsAreNew /\ StartsHaveRoom /\ RunningAreCounted
===============================================================================
