------------------------------ MODULE ProjectList ------------------------------
(***************************************************************************)
(* The Projects tab and the scanner behind it: a list that is read, that a  *)
(* full scan replaces and that single rescans, cleanings and deletions      *)
(* change, each with the disk between two holds of the scanner's mutex, and *)
(* a clone whose end starts a scan.  A project is abstracted to whether it  *)
(* is there and has a folder that could be cleaned.  The sheet of details   *)
(* is left out, what it sends is not.                                       *)
(***************************************************************************)
EXTENDS Naturals, FiniteSets

CONSTANTS Project, Clone,     \* the directories under the roots; the one a clone makes
          MaxCalls, MaxActs,  \* bounds: requests on their way, what the page asks for
          None

VARIABLES page, calls, server, disk, acts
vars == <<page, calls, server, disk, acts>>

-----------------------------------------------------------------------------
Nothing == [p \in Project |-> "no"]
Idle == [at |-> "none", left |-> {}, got |-> Nothing]

\* A request is known by its number where two of a kind can be on their way.
Call(k, p, n) == [kind |-> k, project |-> p, n |-> n, is |-> "sent", got |-> "no", list |-> None]
Room == Cardinality(calls) < MaxCalls
Acts == Room /\ acts < MaxActs /\ acts' = acts + 1
Gets(c, is, got) == calls' = (calls \ {c}) \cup {[c EXCEPT !.is = is, !.got = got]}
At(c, is) == Gets(c, is, c.got)

\* The cache of an earlier life of the server, or none.
Init ==
    /\ disk = [p \in Project |-> IF p = Clone THEN "gone" ELSE "built"]
    /\ \E scanned \in BOOLEAN :
        server = [listed |-> IF scanned THEN [p \in Project |-> IF p = Clone THEN "no" ELSE "built"] ELSE Nothing,
                  scanned |-> scanned, scanning |-> FALSE, scan |-> Idle, job |-> "none", missed |-> FALSE]
    /\ page = [shown |-> None, loading |-> TRUE, reading |-> TRUE, rescanning |-> {}, target |-> None,
               busy |-> {}, clone |-> "form"]
    /\ calls = {Call("list", None, 0)} /\ acts = 0

-----------------------------------------------------------------------------
\* TriggerScan does nothing while a scan runs.
TriggerScan(s) == IF s.scanning THEN s ELSE [s EXCEPT !.scanning = TRUE, !.scan.at = "begun"]

\* runScan: what is there, each of it in some order, the list, the end.
Discover ==
    /\ server.scan.at = "begun"
    /\ server' = [server EXCEPT !.scan = [at |-> "reading", left |-> {p \in Project : disk[p] # "gone"}, got |-> Nothing]]
    /\ UNCHANGED <<page, calls, disk, acts>>

\* scanProject: of what is gone it returns an empty project.
Seen(p) == IF disk[p] = "gone" THEN "plain" ELSE disk[p]

ScanOne(p) ==
    /\ p \in server.scan.left
    /\ server' = [server EXCEPT !.scan.left = @ \ {p}, !.scan.got[p] = Seen(p)]
    /\ UNCHANGED <<page, calls, disk, acts>>

Store ==
    /\ server.scan.at = "reading" /\ server.scan.left = {}
    /\ server' = [server EXCEPT !.listed = server.scan.got, !.scanned = TRUE, !.scan = [Idle EXCEPT !.at = "stored"]]
    /\ UNCHANGED <<page, calls, disk, acts>>

ScanEnds ==
    /\ server.scan.at = "stored"
    /\ server' = [server EXCEPT !.scanning = FALSE, !.scan = Idle]
    /\ UNCHANGED <<page, calls, disk, acts>>

\* The list is read, or a scan triggered, and the list is answered; a server
\* that never scanned does so when it is asked for the list.
ListServed(c) ==
    /\ c.kind \in {"list", "scan"} /\ UNCHANGED <<page, disk, acts>>
    /\ IF c.is = "sent" /\ (c.kind = "scan" \/ ~server.scanned)
       THEN At(c, "asked") /\ server' = TriggerScan(server)
       ELSE c.is \in {"sent", "asked"} /\ calls' = (calls \ {c}) \cup {[c EXCEPT !.is = "done", !.list = [scanning |-> server.scanning, listed |-> server.listed]]} /\ UNCHANGED server

\* RescanOne, DeleteReclaimable and DeleteProject: the project, or the folder
\* of it, has to be in the list.
Known(c) ==
    /\ c.kind \in {"rescan", "clean", "delete"} /\ c.is = "sent" /\ UNCHANGED <<page, server, disk, acts>>
    /\ LET known == IF c.kind = "clean" THEN {"built"} ELSE {"plain", "built"} IN
       At(c, IF server.listed[c.project] \notin known THEN "failed" ELSE IF c.kind = "rescan" THEN "known" ELSE "found")

\* The removal, which may fail; what is gone already is no error.
Removed(c) ==
    /\ c.is = "found" /\ UNCHANGED <<page, server, acts>>
    /\ \/ /\ disk' = [disk EXCEPT ![c.project] = IF c.kind = "delete" THEN "gone" ELSE IF @ = "built" THEN "plain" ELSE @]
          /\ At(c, IF c.kind = "delete" THEN "removed" ELSE "known")
       \/ At(c, "failed") /\ UNCHANGED disk

\* The list is stored as well; an error of that is answered.
Dropped(c) ==
    /\ c.is = "removed" /\ UNCHANGED <<page, disk, acts>>
    /\ server' = [server EXCEPT !.listed[c.project] = "no"]
    /\ \E is \in {"done", "failed"} : At(c, is)

\* rescanAndStore: a project that is gone leaves the list, another is read.
Statted(c) ==
    /\ c.is = "known" /\ UNCHANGED <<page, disk, acts>>
    /\ IF disk[c.project] = "gone" THEN server' = [server EXCEPT !.listed[c.project] = "no"] /\ At(c, "failed")
       ELSE UNCHANGED server /\ At(c, "alive")

Rescans(c) == c.is = "alive" /\ Gets(c, "read", Seen(c.project)) /\ UNCHANGED <<page, server, disk, acts>>

\* Fault: what has left the list meanwhile is put into it again.
StoredAnyway(c) ==
    /\ c.is = "read" /\ UNCHANGED <<page, disk, acts>>
    /\ server' = [server EXCEPT !.listed[c.project] = c.got]
    /\ \E is \in {"done", "failed"} : At(c, is)

\* Only an entry that is still in the list is replaced.
Stored(c) ==
    /\ c.is = "read" /\ UNCHANGED <<page, disk, acts>>
    /\ server' = [server EXCEPT !.listed[c.project] = IF @ = "no" THEN @ ELSE c.got]
    /\ \E is \in {"done", "failed"} : At(c, is)

-----------------------------------------------------------------------------
\* PrepareClone wants a new directory; git makes it first and removes it when
\* it fails.  There is one clone here (a bound).
Cloned(c) ==
    /\ c.kind = "clone" /\ c.is = "sent" /\ UNCHANGED <<page, disk, acts>>
    /\ IF disk[Clone] = "gone" THEN At(c, "done") /\ server' = [server EXCEPT !.job = "begun"]
       ELSE At(c, "failed") /\ UNCHANGED server

GitMakes ==
    /\ server.job = "begun" /\ server' = [server EXCEPT !.job = "made"] /\ disk' = [disk EXCEPT ![Clone] = "plain"]
    /\ UNCHANGED <<page, calls, acts>>

GitEnds ==
    /\ server.job = "made" /\ UNCHANGED <<page, calls, acts>>
    /\ \/ disk[Clone] # "gone" /\ server' = [server EXCEPT !.job = "done"] /\ UNCHANGED disk
       \/ server' = [server EXCEPT !.job = "failed"] /\ disk' = [disk EXCEPT ![Clone] = "gone"]

\* Fault: the end of the clone is told to nobody.
ToldNobody ==
    /\ server.job = "done" /\ server' = [server EXCEPT !.job = "told"]
    /\ UNCHANGED <<page, calls, disk, acts>>

\* onDone, after the job's status says that it is over.
Told ==
    /\ server.job = "done" /\ server' = [TriggerScan(server) EXCEPT !.job = "told", !.missed = server.scanning]
    /\ UNCHANGED <<page, calls, disk, acts>>

StatusServed(c) ==
    /\ c.kind = "status" /\ c.is = "sent" /\ UNCHANGED <<page, server, disk, acts>>
    /\ Gets(c, "done", IF server.job \in {"begun", "made"} THEN "running" ELSE server.job)

\* A request that does not arrive, or whose answer does not.
Lost(c) == c.is \in {"sent", "done"} /\ At(c, "failed") /\ UNCHANGED <<page, server, disk, acts>>

-----------------------------------------------------------------------------
\* load: one at a time, by the page, its timer, or the clone's dialog.
Load(v, cs) ==
    IF v.reading THEN page' = v /\ calls' = cs
    ELSE page' = [v EXCEPT !.reading = TRUE, !.loading = TRUE] /\ calls' = cs \cup {Call("list", None, 0)}

Poll ==
    /\ page.shown # None /\ page.shown.scanning /\ ~page.reading /\ Room
    /\ Load(page, calls) /\ UNCHANGED <<server, disk, acts>>

RescanAll ==
    /\ ~page.loading /\ Acts
    /\ page' = [page EXCEPT !.loading = TRUE] /\ calls' = calls \cup {Call("scan", None, acts)}
    /\ UNCHANGED <<server, disk>>

\* Fault: a list that cannot be read leaves the page to its button.
ListReadHolding(c) ==
    /\ c.kind \in {"list", "scan"} /\ c.is \in {"done", "failed"} /\ calls' = calls \ {c} /\ UNCHANGED <<server, disk, acts>>
    /\ page' = IF c.is = "failed" THEN [page EXCEPT !.loading = FALSE]
               ELSE [page EXCEPT !.shown = c.list, !.loading = FALSE, !.reading = @ /\ c.kind = "scan"]

\* Whichever answer arrives last is shown.
ListRead(c) ==
    /\ c.kind \in {"list", "scan"} /\ c.is \in {"done", "failed"} /\ calls' = calls \ {c} /\ UNCHANGED <<server, disk, acts>>
    /\ page' = [page EXCEPT !.shown = IF c.is = "done" THEN c.list ELSE @, !.loading = FALSE, !.reading = @ /\ c.kind = "scan"]

Rows == IF page.shown = None THEN {} ELSE {p \in Project : page.shown.listed[p] # "no"}

\* A row's button, off while that row is rescanned; opening the details of a
\* project that was scanned long ago rescans it whether or not it is.
Rescan(p) ==
    /\ p \in Rows /\ Acts
    /\ page' = [page EXCEPT !.rescanning = @ \cup {p}] /\ calls' = calls \cup {Call("rescan", p, acts)}
    /\ UNCHANGED <<server, disk>>

\* handleProjectUpdated replaces a row, handleProjectDeleted removes one.
Row(v, p, is) == IF p \in Rows THEN [v EXCEPT !.shown.listed[p] = is] ELSE v

Rescanned(c) ==
    /\ c.kind = "rescan" /\ c.is \in {"done", "failed"} /\ calls' = calls \ {c} /\ UNCHANGED <<server, disk, acts>>
    /\ LET over == [page EXCEPT !.rescanning = @ \ {c.project}] IN
       page' = IF c.is = "done" THEN Row(over, c.project, c.got) ELSE over

\* The dialogs of a project and of its folder, while they can be confirmed (a
\* bound).
Ask(k, p) ==
    /\ p \in Rows /\ page.target = None /\ acts < MaxActs
    /\ k = "clean" => page.shown.listed[p] = "built"
    /\ page' = [page EXCEPT !.target = [kind |-> k, project |-> p]] /\ UNCHANGED <<calls, server, disk, acts>>

\* Fault: closing the dialog ends the wait for what it has sent.
DismissEnding ==
    /\ page.target # None /\ page' = [page EXCEPT !.target = None, !.busy = @ \ {page.target.kind}]
    /\ UNCHANGED <<calls, server, disk, acts>>

\* Escape closes a dialog that waits for an answer, too.
Dismiss == page.target # None /\ page' = [page EXCEPT !.target = None] /\ UNCHANGED <<calls, server, disk, acts>>

Confirm ==
    /\ page.target # None /\ page.target.kind \notin page.busy /\ Acts
    /\ page' = [page EXCEPT !.busy = @ \cup {page.target.kind}]
    /\ calls' = calls \cup {Call(page.target.kind, page.target.project, acts)}
    /\ UNCHANGED <<server, disk>>

\* It closes the dialog of its kind, whichever project that names by now.
Confirmed(c) ==
    LET over == [page EXCEPT !.busy = @ \ {c.kind}]
        shut == IF page.target # None /\ page.target.kind = c.kind THEN [over EXCEPT !.target = None] ELSE over
    IN /\ c.kind \in {"clean", "delete"} /\ c.is \in {"done", "failed"} /\ calls' = calls \ {c} /\ UNCHANGED <<server, disk, acts>>
       /\ page' = IF c.is = "failed" THEN over ELSE Row(shut, c.project, IF c.kind = "clean" THEN c.got ELSE "no")

-----------------------------------------------------------------------------
\* The clone's dialog: its form, its job, and its polls, one at a time here;
\* closing it forgets the job.
Submit ==
    /\ page.clone = "form" /\ server.job = "none" /\ {c \in calls : c.kind = "clone"} = {} /\ Acts
    /\ page' = [page EXCEPT !.clone = "starting"] /\ calls' = calls \cup {Call("clone", Clone, acts)}
    /\ UNCHANGED <<server, disk>>

Started(c) ==
    /\ c.kind = "clone" /\ c.is \in {"done", "failed"} /\ calls' = calls \ {c} /\ UNCHANGED <<server, disk, acts>>
    /\ page' = [page EXCEPT !.clone = IF c.is = "done" THEN "polling" ELSE "form"]

PollJob ==
    /\ page.clone = "polling" /\ Room /\ calls' = calls \cup {Call("status", None, 0)}
    /\ UNCHANGED <<page, server, disk, acts>>

Polled(c) ==
    LET rest == calls \ {c} IN
    /\ c.kind = "status" /\ c.is \in {"done", "failed"} /\ UNCHANGED <<server, disk, acts>>
    /\ IF c.is = "failed" \/ c.got = "running" \/ page.clone # "polling" THEN page' = page /\ calls' = rest
       ELSE IF c.got = "failed" THEN page' = [page EXCEPT !.clone = "over"] /\ calls' = rest
       ELSE Load([page EXCEPT !.clone = "over"], rest)

CloseClone ==
    /\ page.clone # "form" /\ page' = [page EXCEPT !.clone = "form"]
    /\ calls' = {c \in calls : c.kind # "status"} /\ UNCHANGED <<server, disk, acts>>

-----------------------------------------------------------------------------
Next ==
    \/ Discover \/ Store \/ ScanEnds \/ GitMakes \/ GitEnds \/ Told
    \/ Poll \/ RescanAll \/ Dismiss \/ Confirm \/ Submit \/ PollJob \/ CloseClone
    \/ \E p \in Project : ScanOne(p) \/ Rescan(p) \/ Ask("delete", p) \/ Ask("clean", p)
    \/ \E c \in calls :
        \/ ListServed(c) \/ Known(c) \/ Removed(c) \/ Dropped(c) \/ Statted(c) \/ Rescans(c) \/ Stored(c) \/ Cloned(c)
        \/ StatusServed(c) \/ Lost(c) \/ ListRead(c) \/ Rescanned(c) \/ Confirmed(c) \/ Started(c) \/ Polled(c)

Spec == Init /\ [][Next]_vars

-----------------------------------------------------------------------------
\* Types of the variables.
Listing == [scanning : BOOLEAN, listed : [Project -> {"no", "plain", "built"}]]
Scans == [at : {"none", "begun", "reading", "stored"}, left : SUBSET Project, got : [Project -> {"no", "plain", "built"}]]
Servers == [listed : [Project -> {"no", "plain", "built"}], scanned : BOOLEAN, scanning : BOOLEAN, scan : Scans,
            job : {"none", "begun", "made", "done", "failed", "told"}, missed : BOOLEAN]
Pages == [shown : {None} \cup Listing, loading : BOOLEAN, reading : BOOLEAN, rescanning : SUBSET Project,
          target : {None} \cup [kind : {"clean", "delete"}, project : Project], busy : SUBSET {"clean", "delete"},
          clone : {"form", "starting", "polling", "over"}]
Requests == [kind : {"list", "scan", "rescan", "clean", "delete", "clone", "status"}, project : Project \cup {None}, n : Nat,
             is : {"sent", "asked", "known", "found", "removed", "alive", "read", "done", "failed"},
             got : {"no", "plain", "built", "none", "running", "done", "failed", "told"}, list : {None} \cup Listing]
TypeOK ==
    /\ disk \in [Project -> {"gone", "plain", "built"}] /\ server \in Servers /\ page \in Pages
    /\ calls \subseteq Requests /\ acts \in Nat

\* What the page waits for is under way, whatever fails and whatever dialog
\* is closed meanwhile; and the scanner's flag is held by a scan.
NothingStuck ==
    /\ page.loading => \E c \in calls : c.kind \in {"list", "scan"}
    /\ page.reading => \E c \in calls : c.kind = "list"
    /\ \A p \in page.rescanning : \E c \in calls : c.kind = "rescan" /\ c.project = p
    /\ \A k \in page.busy : \E c \in calls : c.kind = k
    /\ page.clone = "starting" => \E c \in calls : c.kind = "clone"
    /\ server.scanning <=> server.scan.at # "none"

\* What a dialog has sent is under way once, though Escape closes it and
\* another can be opened.
OnceAtATime == \A c, d \in calls : c.kind = d.kind /\ c.kind \in {"clean", "delete"} => c = d

\* What has left the list comes back by a full scan alone, and to the page
\* with a list that was read: a rescan or a cleaning that was under way when
\* its project was deleted brings nothing back.
NothingComesBack ==
    /\ \A p \in Project : server.listed[p] = "no" /\ server'.listed[p] # "no" => server.scan.got[p] # "no"
    /\ \A p \in Project :
          page.shown # None /\ page'.shown # page.shown /\ page.shown.listed[p] = "no" /\ page'.shown.listed[p] # "no"
              => \E c \in calls \ calls' : c.kind \in {"list", "scan"}

\* A clone that is there is listed once no scan runs, unless the scan its end
\* would have started found one running that had begun without it.
ClonedIsListed ==
    server.job = "told" /\ disk[Clone] # "gone" /\ ~server.scanning => server.listed[Clone] # "no" \/ server.missed

\* Inductive: where a request can be, and what its answer says; what is removed
\* is gone, and the clone, that is made once, is nowhere before; what the page
\* has sent of a kind it waits for.
AnswerIsSound(c) ==
    /\ c.kind \in {"rescan", "clean", "delete"} => c.project \in Project
    /\ c.is \in {"known", "found", "removed", "alive", "read"} => c.kind \in {"rescan", "clean", "delete"}
    /\ c.kind \in {"list", "scan"} /\ c.is = "done" => c.list \in Listing
    /\ c.is = "read" \/ (c.kind \in {"rescan", "clean"} /\ c.is = "done") => c.got \in {"plain", "built"}
    /\ c.is = "removed" => c.kind = "delete" /\ disk[c.project] = "gone"
AnswersAreSound == \A c \in calls : AnswerIsSound(c)
SentIsBusy == \A c \in calls : c.kind \in {"clean", "delete"} => c.kind \in page.busy
CloneIsAskedOnce ==
    \A c \in calls : c.kind = "clone" /\ c.is = "sent" => server.job = "none" /\ \A d \in calls : d.kind = "clone" => d = c
CloneIsMadeOnce ==
    server.job \in {"none", "begun"} =>
        /\ disk[Clone] = "gone" /\ server.listed[Clone] = "no" /\ server.scan.got[Clone] = "no" /\ Clone \notin server.scan.left
        /\ \A c \in calls : c.project = Clone => c.is \notin {"found", "removed"}
\* A scan that runs since the clone was there, or the last one, has seen it.
CloneIsSeen ==
    server.job = "told" /\ disk[Clone] # "gone" /\ ~server.missed =>
        /\ server.scan.at = "reading" => Clone \in server.scan.left \/ server.scan.got[Clone] # "no"
        /\ server.scan.at \in {"stored", "none"} => server.listed[Clone] # "no"

IndInv ==
    /\ TypeOK /\ NothingStuck /\ OnceAtATime /\ AnswersAreSound /\ SentIsBusy
    /\ CloneIsAskedOnce /\ CloneIsMadeOnce /\ CloneIsSeen
================================================================================
