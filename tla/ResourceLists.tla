----------------------------- MODULE ResourceLists -----------------------------
(***************************************************************************)
(* The tabs that show a list the backend keeps and act on its items: the    *)
(* SSH keys, hosts and known_hosts, GPG keys, HTTPS credentials, fonts,     *)
(* extensions, containers, supervised processes, listening ports, open      *)
(* sessions and worktrees.  They are one loop - read the list, ask, send,   *)
(* read it again - and differ in when they read and in how a request names  *)
(* its item.                                                                *)
(* What acting does (delete, stop, kill, close) is left out: the list is of *)
(* the items it is still to be done to.  A pid or name that is given to     *)
(* something else is left out too; a position in the list is not.           *)
(***************************************************************************)
EXTENDS Naturals, Sequences, FiniteSets, Functions

CONSTANTS Item, First,         \* what can be in a list; what is there at first
          MaxCalls,            \* bound: requests on their way
          MaxActs, MaxOthers,  \* bounds: what the tab asks for, changes somebody else makes
          None

VARIABLES
    view,    \* what the tab shows and waits for
    calls,   \* its requests on their way
    server,  \* the backend's list, in its order
    wrong,   \* what was acted on though no dialog had named it
    spent    \* how much of MaxActs and MaxOthers there was
vars == <<view, calls, server, wrong, spent>>

-----------------------------------------------------------------------------
\* by: a request names its item by "id" or by its "index".  single: a load
\* does nothing while another is on its way.  again: the list is read again
\* by a timer or a button.  after: what follows an action that succeeded, a
\* "reload" it waits for, a "kick" it does not wait for, or a "patch" of the
\* list that is shown.  adds: the same for adding.  closes: the dialog closes
\* when it is "confirmed", has "succeeded" or is "done"; "none" is asked.
\* rows: several items can be acted on at once.  drag: it can be reordered.
Panel(by, single, again, after, adds, closes, rows, drag) ==
    [by |-> by, single |-> single, again |-> again, after |-> after, adds |-> adds, closes |-> closes, rows |-> rows, drag |-> drag]

SshKeys == Panel("id", FALSE, FALSE, "reload", "reload", "done", FALSE, TRUE)
SshHosts == Panel("id", FALSE, FALSE, "reload", "reload", "done", FALSE, FALSE)
GpgKeys == Panel("id", FALSE, FALSE, "reload", "reload", "done", FALSE, FALSE)
HttpsCredentials == Panel("id", FALSE, FALSE, "reload", "reload", "done", FALSE, FALSE)
KnownHosts == Panel("index", FALSE, FALSE, "reload", "reload", "done", FALSE, FALSE)
Fonts == Panel("id", TRUE, TRUE, "reload", "reload", "succeeded", FALSE, FALSE)
FontInstalls == Panel("id", TRUE, TRUE, "reload", "patch", "succeeded", FALSE, FALSE)
Extensions == Panel("id", TRUE, TRUE, "patch", "patch", "confirmed", TRUE, FALSE)
Dind == Panel("id", TRUE, TRUE, "reload", "none", "confirmed", TRUE, FALSE)
Supervisor == Panel("id", TRUE, TRUE, "reload", "none", "confirmed", TRUE, FALSE)
PortTable == Panel("id", TRUE, TRUE, "kick", "none", "done", TRUE, FALSE)
Sessions == Panel("id", TRUE, TRUE, "reload", "none", "none", TRUE, FALSE)
WorktreesPanel == Panel("id", FALSE, TRUE, "kick", "none", "succeeded", FALSE, FALSE)
Panels == {SshKeys, SshHosts, GpgKeys, HttpsCredentials, KnownHosts, Fonts, FontInstalls, Extensions, Dind, Supervisor, PortTable, Sessions, WorktreesPanel}

-----------------------------------------------------------------------------
\* A request: the item it is about and its place, the list it sends or
\* receives; a load names the action that waits for it.
Call(k, why, item, at, list) == [kind |-> k, why |-> why, item |-> item, at |-> at, list |-> list, is |-> "sent"]
LoadFor(why, item) == Call("load", why, item, 0, <<>>)
Room == Cardinality(calls) < MaxCalls
Acts == Room /\ spent.acts < MaxActs /\ spent' = [spent EXCEPT !.acts = @ + 1]

Init ==
    /\ \E p \in Panels : view = [is |-> p, list |-> <<>>, lock |-> p.single, busy |-> {}, adding |-> None, target |-> None]
    /\ calls = {LoadFor("show", None)}
    /\ server = CHOOSE s \in [1..Cardinality(First) -> First] : Range(s) = First
    /\ wrong = {} /\ spent = [acts |-> 0, others |-> 0]

-----------------------------------------------------------------------------
\* The finally of an action.
Released(v, why, item) ==
    IF why = "act" THEN [v EXCEPT !.busy = @ \ {item}, !.target = IF v.is.closes = "done" THEN None ELSE @]
    ELSE IF why = "add" THEN [v EXCEPT !.adding = None]
    ELSE v

\* load, of the timer or the button, or for an action.  One that finds
\* another on its way is over at once.
Loads(v, cs, why, item) ==
    IF v.is.single /\ v.lock THEN view' = Released(v, why, item) /\ calls' = cs
    ELSE view' = [v EXCEPT !.lock = v.is.single] /\ calls' = cs \cup {LoadFor(why, item)}

Reload ==
    /\ view.is.again /\ Room /\ LoadFor("show", None) \notin calls
    /\ Loads(view, calls, "show", None) /\ UNCHANGED <<server, wrong, spent>>

\* Fault: the lock is kept when a load failed.
LoadedHolding(c) ==
    /\ c.kind = "load" /\ c.is # "sent" /\ calls' = calls \ {c}
    /\ view' = Released([view EXCEPT !.lock = @ /\ c.is = "failed", !.list = IF c.is = "failed" THEN @ ELSE c.list], c.why, c.item)
    /\ UNCHANGED <<server, wrong, spent>>

\* The list that arrives replaces the one that is shown, whichever is newer,
\* and the action that waited for it is over.
Loaded(c) ==
    /\ c.kind = "load" /\ c.is # "sent" /\ calls' = calls \ {c}
    /\ view' = Released([view EXCEPT !.lock = FALSE, !.list = IF c.is = "failed" THEN @ ELSE c.list], c.why, c.item)
    /\ UNCHANGED <<server, wrong, spent>>

-----------------------------------------------------------------------------
\* A row's button opens the dialog, which keeps the item and its place.
Ask(i) ==
    /\ view.is.closes # "none" /\ view.target = None /\ view.list[i] \notin view.busy
    /\ view' = [view EXCEPT !.target = [item |-> view.list[i], at |-> i]]
    /\ UNCHANGED <<calls, server, wrong, spent>>

Dismiss ==
    /\ view.target # None /\ view' = [view EXCEPT !.target = None]
    /\ UNCHANGED <<calls, server, wrong, spent>>

\* Sends the request for an item.
Sends(item, at, closed) ==
    /\ Acts
    /\ view' = [view EXCEPT !.busy = @ \cup {item}, !.target = IF closed THEN None ELSE @]
    /\ calls' = calls \cup {Call("act", "show", item, at, <<>>)}
    /\ UNCHANGED <<server, wrong>>

\* The dialog is confirmed: where it stays open its button is off meanwhile.
Confirm ==
    /\ view.target # None
    /\ IF view.is.rows THEN view.target.item \notin view.busy ELSE view.busy = {}
    /\ Sends(view.target.item, view.target.at, view.is.closes = "confirmed")

\* requestClose asks nothing.
Close(i) == view.is.closes = "none" /\ view.list[i] \notin view.busy /\ Sends(view.list[i], i, FALSE)

\* Fault: all that is under way is forgotten with the first that is over.
ActedForgetful(c) ==
    /\ c.kind = "act" /\ c.is # "sent" /\ calls' = calls \ {c}
    /\ view' = [view EXCEPT !.busy = {}, !.target = None]
    /\ UNCHANGED <<server, wrong, spent>>

\* It is answered.
Acted(c) ==
    LET over == Released(view, "act", c.item)
        shut == IF view.is.closes = "succeeded" THEN [view EXCEPT !.target = None] ELSE view
        rest == calls \ {c}
    IN /\ c.kind = "act" /\ c.is # "sent" /\ UNCHANGED <<server, wrong, spent>>
       /\ IF c.is = "failed" THEN view' = over /\ calls' = rest
          ELSE IF view.is.after = "reload" THEN Loads(shut, rest, "act", c.item)
          ELSE IF view.is.after = "kick" THEN Loads(Released(shut, "act", c.item), rest, "show", None)
          ELSE view' = [over EXCEPT !.list = SelectSeq(@, LAMBDA x : x # c.item)] /\ calls' = rest

-----------------------------------------------------------------------------
\* The form, or a recommendation's button: one thing is added at a time here.
Add(x) ==
    /\ view.is.adds # "none" /\ view.adding = None /\ x \notin view.busy /\ Acts
    /\ view' = [view EXCEPT !.adding = x]
    /\ calls' = calls \cup {Call("add", "show", x, 0, <<>>)}
    /\ UNCHANGED <<server, wrong>>

\* markInstalled looks whether it is shown already.
Added(c) ==
    LET over == [view EXCEPT !.adding = None] IN
    /\ c.kind = "add" /\ c.is # "sent" /\ UNCHANGED <<server, wrong, spent>>
    /\ IF c.is = "failed" THEN view' = over /\ calls' = calls \ {c}
       ELSE IF view.is.adds = "reload" THEN Loads(view, calls \ {c}, "add", c.item)
       ELSE /\ calls' = calls \ {c}
            /\ view' = IF view.is = Extensions /\ c.item \in Range(view.list) THEN over
                       ELSE [over EXCEPT !.list = Append(@, c.item)]

\* splice, of the list or of the stored one.
Cut(s, i) == SubSeq(s, 1, i - 1) \o SubSeq(s, i + 1, Len(s))

\* handleDrop: the order is shown before it is stored.
Drop(i, j) ==
    /\ view.is.drag /\ i # j /\ Acts
    /\ LET rest == Cut(view.list, i)
           next == SubSeq(rest, 1, j - 1) \o <<view.list[i]>> \o SubSeq(rest, j, Len(rest)) IN
       /\ view' = [view EXCEPT !.list = next]
       /\ calls' = calls \cup {Call("reorder", "show", None, 0, next)}
    /\ UNCHANGED <<server, wrong>>

\* The stored order is shown, or the list is read again.
Dropped(c) ==
    /\ c.kind = "reorder" /\ c.is # "sent" /\ UNCHANGED <<server, wrong, spent>>
    /\ IF c.is = "failed" THEN Loads(view, calls \ {c}, "show", None)
       ELSE view' = [view EXCEPT !.list = c.list] /\ calls' = calls \ {c}

-----------------------------------------------------------------------------
\* The backend.
Answer(c, is, list) == calls' = (calls \ {c}) \cup {[c EXCEPT !.is = is, !.list = list]}
Fails(c) == Answer(c, "failed", <<>>) /\ UNCHANGED <<server, wrong>>
Without(x) == SelectSeq(server, LAMBDA y : y # x)

\* Fault: acts on what is at the place the tab saw the item at.
RemoveAtPlace(c) ==
    IF c.at \in DOMAIN server
    THEN /\ server' = Cut(server, c.at) /\ wrong' = wrong \cup ({<<view.is.by, server[c.at]>>} \ {<<view.is.by, c.item>>})
         /\ Answer(c, "done", <<>>)
    ELSE Fails(c)

\* The item of that name, or what is at that place by now.
RemoveNamed(c) ==
    IF view.is.by = "id"
    THEN IF c.item \in Range(server) THEN server' = Without(c.item) /\ Answer(c, "done", <<>>) /\ UNCHANGED wrong ELSE Fails(c)
    ELSE IF c.at \in DOMAIN server
         THEN /\ server' = Cut(server, c.at) /\ Answer(c, "done", <<>>)
              /\ wrong' = wrong \cup ({<<view.is.by, server[c.at]>>} \ {<<view.is.by, c.item>>})
         ELSE Fails(c)

\* Fault: what the new order leaves out is dropped.
ReorderAnyway(c) ==
    /\ server' = c.list /\ Answer(c, "done", c.list)
    /\ wrong' = wrong \cup {<<view.is.by, x>> : x \in Range(server) \ Range(c.list)}

\* An order of other items than the stored ones is refused.
Reorder(c) ==
    IF Range(c.list) = Range(server) /\ Len(c.list) = Len(server)
    THEN server' = c.list /\ Answer(c, "done", c.list) /\ UNCHANGED wrong
    ELSE Fails(c)

Serve(c) ==
    /\ c.is = "sent" /\ UNCHANGED <<view, spent>>
    /\ \/ Fails(c)
       \/ c.kind = "load" /\ Answer(c, "done", server) /\ UNCHANGED <<server, wrong>>
       \/ c.kind = "act" /\ RemoveNamed(c)
       \/ c.kind = "reorder" /\ Reorder(c)
       \/ /\ c.kind = "add" /\ c.item \notin Range(server)
          /\ server' = Append(server, c.item) /\ Answer(c, "done", <<>>) /\ UNCHANGED wrong

\* Another window, a terminal, or the thing itself.
OtherChanges ==
    /\ spent.others < MaxOthers /\ spent' = [spent EXCEPT !.others = @ + 1]
    /\ \/ \E x \in Item \ Range(server) : server' = Append(server, x)
       \/ \E x \in Range(server) : server' = Without(x)
    /\ UNCHANGED <<view, calls, wrong>>

Next ==
    \/ Reload \/ Dismiss \/ Confirm \/ OtherChanges
    \/ \E i \in DOMAIN view.list : Ask(i) \/ Close(i)
    \/ \E i, j \in DOMAIN view.list : Drop(i, j)
    \/ \E x \in Item : Add(x)
    \/ \E c \in calls : Loaded(c) \/ Acted(c) \/ Added(c) \/ Dropped(c) \/ Serve(c)

Spec == Init /\ [][Next]_vars

-----------------------------------------------------------------------------
\* Types of the variables.
TypeOK ==
    /\ view.is \in Panels /\ view.list \in Seq(Item) /\ view.lock \in BOOLEAN /\ view.busy \subseteq Item /\ view.adding \in Item \cup {None}
    /\ view.target = None \/ view.target.item \in Item
    /\ server \in Seq(Item)

\* What the buttons are disabled for is under way: an action, or the list
\* being read for it; and the lock of the loads is held by one of them.
NothingStuck ==
    /\ view.lock => \E c \in calls : c.kind = "load"
    /\ \A x \in view.busy : \E c \in calls : c.item = x /\ (c.kind = "act" \/ c.why = "act")
    /\ view.adding # None => \E c \in calls : c.kind = "add" \/ c.why = "add"

\* Nothing is acted on that the dialog did not name, and no order that was
\* made of an older list drops an entry - where a request names its item.
ActedIsConfirmed == \A w \in wrong : w[1] = "index"

\* An item has one action under way at most, however many of them the tab
\* has started and in whatever order they end.
OnceAtATime == \A c, d \in calls : c.kind = "act" /\ d.kind = "act" /\ c.item = d.item => c = d

\* What the buttons are disabled for, an action or the load that follows it,
\* is one request for every item.
Holds(c) == c.kind = "act" \/ c.why = "act"
HeldOnce == \A c, d \in calls : Holds(c) /\ Holds(d) /\ c.item = d.item => c = d
HeldIsBusy == \A c \in calls : Holds(c) => c.item \in view.busy
ViewIsSound ==
    /\ view.is \in Panels /\ view.is.by \in {"id", "index"}
    /\ DOMAIN view = {"is", "list", "lock", "busy", "adding", "target"}
CallsFit == \A c \in calls : c.why \in {"show", "act", "add"} /\ (c.kind # "load" => c.why = "show")

IndInv ==
    /\ ViewIsSound /\ CallsFit /\ HeldOnce /\ HeldIsBusy
    /\ NothingStuck /\ ActedIsConfirmed /\ OnceAtATime
===============================================================================
