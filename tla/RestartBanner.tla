----------------------------- MODULE RestartBanner -----------------------------
(***************************************************************************)
(* The banner that asks for a restart of code-server                        *)
(* (components/common/RestartNeededBanner.tsx), below a tab whose job's     *)
(* progress is its refresh token.  The backend reports a job over and marks *)
(* the restart a moment later (internal/mise/jobs.go, onDone); the mark is  *)
(* cleared when code-server has started again (internal/restartstatus).     *)
(***************************************************************************)
EXTENDS Naturals, FiniteSets

CONSTANTS MaxJobs, MaxCalls  \* bounds: jobs the tab follows, requests on their way

VARIABLES
    banner,  \* dirty, restarting, polling and the confirm dialog, epochRef; what it shows is of epoch "of"
    calls,   \* requests on their way: status reads of an epoch, restarts
    server   \* the mark, whether code-server is down, and the job: "none", "running", "over" and seen so
vars == <<banner, calls, server>>

Call(k, e) == [kind |-> k, epoch |-> e, reply |-> "none"]
Room == Cardinality(calls) < MaxCalls

Init ==
    /\ banner = [epoch |-> 1, dirty |-> FALSE, of |-> 0, polling |-> FALSE, confirm |-> "closed"]
    /\ calls = {Call("status", 1)}
    /\ server \in [dirty : BOOLEAN, down : {FALSE}, job : {"none"}, shown : {"none"}, left : {MaxJobs}, mark : {FALSE}]

-----------------------------------------------------------------------------
\* The refresh token changes with what the tab shows of its job: a new
\* epoch, whose status is read, and no polling any more.
TokenChanges ==
    /\ server.shown # server.job
    /\ server' = [server EXCEPT !.shown = server.job]
    /\ banner' = [banner EXCEPT !.epoch = @ + 1, !.polling = FALSE]
    /\ calls' = calls \cup {Call("status", banner.epoch + 1)}

\* fetchStatus's answer.
\* Fault: of whatever epoch.
StatusReadAny(c) ==
    /\ c.kind = "status" /\ c.reply # "none" /\ calls' = calls \ {c}
    /\ banner' = IF c.reply = "failed" THEN banner
                 ELSE [banner EXCEPT !.dirty = c.reply = "dirty", !.of = c.epoch, !.polling = @ /\ c.reply = "dirty"]
    /\ UNCHANGED server

\* An answer of an earlier epoch is dropped; not dirty ends the polling.
StatusRead(c) ==
    /\ c.kind = "status" /\ c.reply # "none" /\ calls' = calls \ {c}
    /\ banner' = IF c.reply = "failed" \/ c.epoch # banner.epoch THEN banner
                 ELSE [banner EXCEPT !.dirty = c.reply = "dirty", !.of = c.epoch, !.polling = @ /\ c.reply = "dirty"]
    /\ UNCHANGED server

\* The button, unless a restart is on its way or waited for; cancelled.
Ask ==
    /\ banner.dirty
    /\ banner' = IF banner.confirm = "asked" THEN [banner EXCEPT !.confirm = "closed"]
                 ELSE [banner EXCEPT !.confirm = "asked"]
    /\ banner.confirm # "restarting" /\ (banner.confirm = "closed" => ~banner.polling)
    /\ UNCHANGED <<calls, server>>

\* handleRestartConfirm, up to its await.
Confirm ==
    /\ banner.dirty /\ banner.confirm = "asked" /\ Room
    /\ banner' = [banner EXCEPT !.confirm = "restarting"]
    /\ calls' = calls \cup {Call("restart", banner.epoch)}
    /\ UNCHANGED server

\* And on: it polls for the restart it asked for, in the epoch of now.
RestartAsked(c) ==
    /\ c.kind = "restart" /\ c.reply # "none" /\ calls' = calls \ {c}
    /\ banner' = [banner EXCEPT !.confirm = "closed", !.polling = @ \/ c.reply = "ok"]
    /\ UNCHANGED server

Poll ==
    /\ banner.polling /\ Room
    /\ calls' = calls \cup {Call("status", banner.epoch)}
    /\ UNCHANGED <<banner, server>>

-----------------------------------------------------------------------------
Serve(c) ==
    /\ c.reply = "none" /\ UNCHANGED banner
    /\ \E r \in {"failed"} \cup (IF c.kind = "restart" THEN {"ok"} ELSE IF server.dirty THEN {"dirty"} ELSE {"clean"}) :
           /\ calls' = (calls \ {c}) \cup {[c EXCEPT !.reply = r]}
           /\ server' = [server EXCEPT !.down = @ \/ r = "ok"]

\* code-server is up again.
Up ==
    /\ server.down
    /\ server' = [server EXCEPT !.down = FALSE, !.dirty = FALSE]
    /\ UNCHANGED <<banner, calls>>

\* A job starts, ends well, and is then marked.
JobStarts ==
    /\ server.left > 0 /\ server.job \in {"none", "over"} /\ server.shown = server.job
    /\ server' = [server EXCEPT !.job = "running", !.left = @ - 1]
    /\ UNCHANGED <<banner, calls>>

JobEnds ==
    /\ server.job = "running" /\ ~server.mark
    /\ server' = [server EXCEPT !.job = "over", !.mark = TRUE]
    /\ UNCHANGED <<banner, calls>>

Mark ==
    /\ server.mark
    /\ server' = [server EXCEPT !.mark = FALSE, !.dirty = TRUE]
    /\ UNCHANGED <<banner, calls>>

Next ==
    \/ TokenChanges \/ Ask \/ Confirm \/ Poll \/ Up \/ JobStarts \/ JobEnds \/ Mark
    \/ \E c \in calls : StatusRead(c) \/ RestartAsked(c) \/ Serve(c)

Spec == Init /\ [][Next]_vars

-----------------------------------------------------------------------------
\* Types of the variables.
Banners == [epoch : Nat, dirty : BOOLEAN, of : Nat, polling : BOOLEAN, confirm : {"closed", "asked", "restarting"}]
Requests == [kind : {"status", "restart"}, epoch : Nat, reply : {"none", "failed", "ok", "dirty", "clean"}]
Servers == [dirty : BOOLEAN, down : BOOLEAN, job : {"none", "running", "over"}, shown : {"none", "running", "over"},
            left : 0 .. MaxJobs, mark : BOOLEAN]
TypeOK ==
    /\ banner \in Banners /\ calls \subseteq Requests /\ server \in Servers
    /\ banner.epoch \in 1 .. 2 * MaxJobs + 1 /\ banner.of \in 0 .. banner.epoch
    /\ \A c \in calls : c.epoch \in 1 .. banner.epoch

\* A restart the dialog waits for is under way.
NothingStuck ==
    banner.confirm = "restarting" => \E c \in calls : c.kind = "restart"

\* epochRef's comment: an answer that was superseded does not clobber what a
\* newer one has shown.
NewestStep == banner'.of >= banner.of

\* Inductive: a job changes the token twice, once when it starts and once when
\* it is over; these are the changes to come of the jobs started so far.
ToCome == IF server.job = "running" THEN IF server.shown = "running" THEN 1 ELSE 2
          ELSE IF server.shown = server.job THEN 0 ELSE 1
EpochsCounted ==
    /\ banner.epoch + ToCome <= 2 * (MaxJobs - server.left) + 1
    /\ server.job = "none" => server.shown = "none"

IndInv == TypeOK /\ NothingStuck /\ EpochsCounted
===============================================================================
