-------------------------------- MODULE LogView --------------------------------
(***************************************************************************)
(* The Logs tab and the log and inspect sheets of processes and containers: *)
(* a page of entries for a chosen filter that is read again, extended by a  *)
(* timer and a button, and emptied, with every answer on its own way.       *)
(* An entry is abstracted to the filter it was asked for with.              *)
(***************************************************************************)
EXTENDS Naturals, FiniteSets

CONSTANTS App, All,          \* what the first choice offers; that of no choice
          MaxAsks, MaxCalls  \* bounds: pages asked for, requests on their way

VARIABLES page,  \* what is shown and waited for
          calls  \* requests on their way
vars == <<page, calls>>

-----------------------------------------------------------------------------
\* stamped: each read of the page claims the next number and is dropped when
\* it is not the last.  full: times, a live table and purging.  choice: the
\* app or stream can be chosen.
LogPanel == [stamped |-> FALSE, full |-> FALSE, choice |-> TRUE]
DindLogPanel == [stamped |-> FALSE, full |-> FALSE, choice |-> FALSE]
DindInspectPanel == DindLogPanel
Logs == [stamped |-> TRUE, full |-> TRUE, choice |-> TRUE]

Filter == [app : App, ranged : BOOLEAN]

\* A request: the number and the filter it was made with; a page may be read
\* at the end of a purge.
Call(k, ask, f, why) == [kind |-> k, ask |-> ask, filter |-> f, why |-> why, is |-> "sent"]
Room == Cardinality(calls) < MaxCalls
Waiting(k) == \E c \in calls : c.kind = k

Init ==
    LET f == [app |-> All, ranged |-> FALSE] IN
    \E is \in {Logs, LogPanel, DindLogPanel, DindInspectPanel} :
        /\ page = [is |-> is, filter |-> f, ask |-> 1, loading |-> TRUE, table |-> [ask |-> 0, of |-> {}], hasMore |-> FALSE,
                   more |-> FALSE, polling |-> FALSE, live |-> FALSE, range |-> "unread", purge |-> "closed", purging |-> FALSE]
        /\ calls = {Call("first", 1, f, "show")} \cup (IF is.full THEN {Call("range", 0, f, "show")} ELSE {})

-----------------------------------------------------------------------------
\* loadFirstPage: the next number, with the filter of the caller.
First(p, cs, f, why) ==
    /\ p.ask < MaxAsks
    /\ page' = [p EXCEPT !.ask = @ + 1, !.loading = TRUE]
    /\ calls' = cs \cup {Call("first", p.ask + 1, f, why)}

\* The controls of a filter are there once there is something to filter.
Controls == page.is.choice /\ (page.is.full => page.range # "none")

\* Another app, level, stream or time: the effect reads the page of it.
Choose(f) ==
    /\ Controls /\ f # page.filter /\ Room
    /\ f.ranged # page.filter.ranged => page.is.full /\ page.range = "some" /\ ~page.live
    /\ First([page EXCEPT !.filter = f], calls, f, "show")

Refresh == ~page.loading /\ Room /\ First(page, calls, page.filter, "show")

\* Turning the live table on drops the times of the filter.
Live ==
    LET f == IF page.live THEN page.filter ELSE [page.filter EXCEPT !.ranged = FALSE]
        now == [page EXCEPT !.live = ~@, !.filter = f]
    IN /\ page.is.full /\ Controls
       /\ IF f = page.filter THEN page' = now /\ UNCHANGED calls ELSE Room /\ First(now, calls, f, "show")

\* What a page that was read leaves: an error keeps the table.
Shown(p, c, of, hasMore) ==
    IF c.is = "failed" THEN p ELSE [p EXCEPT !.table = [ask |-> c.ask, of |-> of], !.hasMore = hasMore /\ p.is.full /\ of # {}]

\* The finally of the purge that waited for it.
Purged(p, c) == IF c.why = "purge" THEN [p EXCEPT !.purging = FALSE] ELSE p

\* Fault: whichever page arrives is shown.
FirstReadAny(c) ==
    /\ c.kind = "first" /\ c.is # "sent" /\ calls' = calls \ {c}
    /\ \E of \in {{}, {c.filter}}, hasMore \in BOOLEAN :
        page' = Purged([Shown(page, c, of, hasMore) EXCEPT !.loading = FALSE], c)

\* The page arrives: dropped when a later one was asked for.
FirstRead(c) ==
    /\ c.kind = "first" /\ c.is # "sent" /\ calls' = calls \ {c}
    /\ \E of \in {{}, {c.filter}}, hasMore \in BOOLEAN :
        page' = IF page.is.stamped /\ c.ask # page.ask THEN Purged(page, c)
                ELSE Purged([Shown(page, c, of, hasMore) EXCEPT !.loading = FALSE], c)

-----------------------------------------------------------------------------
\* The timer of the live table asks for what is newer than the first entry.
PollNew ==
    /\ page.live /\ ~page.loading /\ ~page.polling /\ page.table.of # {} /\ Room
    /\ page' = [page EXCEPT !.polling = TRUE]
    /\ calls' = calls \cup {Call("poll", page.ask, page.filter, "show")}

\* The button asks for what is older than the last.
LoadMore ==
    /\ page.is.full /\ page.range # "none" /\ page.hasMore /\ ~page.more /\ ~page.loading /\ page.table.of # {} /\ Room
    /\ page' = [page EXCEPT !.more = TRUE]
    /\ calls' = calls \cup {Call("more", page.ask, page.filter, "show")}

\* Fault: an answer that brings nothing is taken for none.
PageReadSome(c) ==
    /\ c.kind \in {"poll", "more"} /\ c.is # "sent" /\ calls' = calls \ {c}
    /\ \E some \in BOOLEAN, hasMore \in BOOLEAN :
        LET grown == IF some /\ c.is = "done" THEN [page EXCEPT !.table.of = @ \cup {c.filter}] ELSE page
        IN page' = IF ~some /\ c.kind = "poll" THEN page
                   ELSE IF c.kind = "poll" THEN [grown EXCEPT !.polling = FALSE]
                   ELSE [grown EXCEPT !.more = FALSE, !.hasMore = IF c.is = "done" THEN hasMore ELSE @]

\* They are added to whatever the table holds by now.
PageRead(c) ==
    /\ c.kind \in {"poll", "more"} /\ c.is # "sent" /\ calls' = calls \ {c}
    /\ \E some \in BOOLEAN, hasMore \in BOOLEAN :
        LET grown == IF some /\ c.is = "done" THEN [page EXCEPT !.table.of = @ \cup {c.filter}] ELSE page
        IN page' = IF c.kind = "poll" THEN [grown EXCEPT !.polling = FALSE]
                   ELSE [grown EXCEPT !.more = FALSE, !.hasMore = IF c.is = "done" THEN hasMore ELSE @]

-----------------------------------------------------------------------------
\* handlePurgeApp: the deletion, the range, and the page of the filter that
\* was chosen when it began.
AskPurge ==
    /\ page.is.full /\ Controls /\ page.filter.app # All /\ page.purge = "closed"
    /\ page' = [page EXCEPT !.purge = "open"] /\ UNCHANGED calls

DropPurge == page.purge = "open" /\ page' = [page EXCEPT !.purge = "closed"] /\ UNCHANGED calls

Purge ==
    /\ page.purge = "open" /\ ~page.purging /\ page.filter.app # All /\ Room
    /\ page' = [page EXCEPT !.purging = TRUE]
    /\ calls' = calls \cup {Call("purge", page.ask, page.filter, "purge")}

Emptied(c) ==
    /\ c.kind = "purge" /\ c.is # "sent"
    /\ IF c.is = "failed" THEN page' = [page EXCEPT !.purging = FALSE] /\ calls' = calls \ {c}
       ELSE /\ page' = [page EXCEPT !.purge = "closed"]
            /\ calls' = (calls \ {c}) \cup {Call("range", 0, c.filter, "purge")}

\* The range, of the first effect or of the purge.
RangeRead(c) ==
    LET rest == calls \ {c} IN
    /\ c.kind = "range" /\ c.is # "sent"
    /\ IF c.is = "failed" THEN page' = Purged(page, c) /\ calls' = rest
       ELSE \E range \in {"none", "some"} :
                LET now == [page EXCEPT !.range = range] IN
                IF c.why = "purge" THEN First(now, rest, c.filter, "purge") ELSE page' = now /\ calls' = rest

Serve(c) ==
    /\ c.is = "sent" /\ UNCHANGED page
    /\ \E is \in {"done", "failed"} : calls' = (calls \ {c}) \cup {[c EXCEPT !.is = is]}

Next ==
    \/ Refresh \/ Live \/ PollNew \/ LoadMore \/ AskPurge \/ DropPurge \/ Purge
    \/ \E f \in Filter : Choose(f)
    \/ \E c \in calls : FirstRead(c) \/ PageRead(c) \/ Emptied(c) \/ RangeRead(c) \/ Serve(c)

Spec == Init /\ [][Next]_vars

-----------------------------------------------------------------------------
\* Types of the variables.
Pages == [is : {Logs, LogPanel, DindLogPanel}, filter : Filter, ask : 1..MaxAsks, loading : BOOLEAN,
          table : [ask : 0..MaxAsks, of : SUBSET Filter], hasMore : BOOLEAN, more : BOOLEAN, polling : BOOLEAN,
          live : BOOLEAN, range : {"unread", "none", "some"}, purge : {"open", "closed"}, purging : BOOLEAN]
Requests == [kind : {"first", "poll", "more", "purge", "range"}, ask : 0..MaxAsks, filter : Filter, why : {"show", "purge"},
             is : {"sent", "done", "failed"}]
TypeOK == page \in Pages /\ calls \subseteq Requests

\* What a button or a timer is held up by is under way, whatever was asked
\* for meanwhile and whatever fails.
NothingStuck ==
    /\ page.loading /\ page.is.stamped => \E c \in calls : c.kind = "first" /\ c.ask = page.ask
    /\ page.loading => Waiting("first")
    /\ page.more => Waiting("more")
    /\ page.polling => Waiting("poll")
    /\ page.purging => \E c \in calls : c.why = "purge"

\* Once nothing is being read the table starts with the page that was asked
\* for last, or with the one before an error: an earlier answer never comes
\* over a later one.  The sheet of a process, which numbers nothing, is not
\* meant: its two streams can overtake each other.
NewestStep == page.is # LogPanel => page'.table.ask >= page.table.ask

\* Inductive: a page asked for is no later than the last and the table no later
\* than that; only a purge waits with a purge; and where nothing can be chosen one
\* page is read at a time.
AsksAreOfPage ==
    /\ page.table.ask <= page.ask
    /\ \A c \in calls : c.kind = "first" => c.ask <= page.ask
WhysAreOfKinds ==
    /\ \A c \in calls : c.kind \in {"poll", "more"} => c.why = "show"
    /\ ~page.is.full => page.purge = "closed" /\ \A c \in calls : c.kind \notin {"purge", "range"}
OneFirst ==
    page.is = DindLogPanel => \A c \in calls : c.kind = "first" =>
        page.loading /\ c.ask = page.ask /\ \A d \in calls : d.kind = "first" => d = c

IndInv == TypeOK /\ NothingStuck /\ AsksAreOfPage /\ WhysAreOfKinds /\ OneFirst
================================================================================
