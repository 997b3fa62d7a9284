------------------------------ MODULE FileBrowser ------------------------------
(***************************************************************************)
(* The Files tab (components/FileManager): a stack of crumbs, the listing   *)
(* of one folder, a selection, and the operations on files.  Nothing is     *)
(* modal while a request is on its way: a folder can be left before the     *)
(* answer for it is there, and every operation ends by listing again the    *)
(* folder that was open when it was asked for.                              *)
(***************************************************************************)
EXTENDS Naturals, Sequences, FiniteSets

CONSTANTS Dir, Root, HomeDir,  \* the folders, the one browsed up to, the one "/files/list" opens
          Name, First,         \* names of files, and those that may be there at first
          MaxOps, MaxLooks,    \* bounds: operations on files, folders opened and listings renewed,
          MaxCalls,            \* requests on their way
          None

VARIABLES
    fm,      \* the tab's state
    calls,   \* requests on their way
    disk,    \* the names in every folder
    unasked  \* history: how files were replaced that nobody was asked about
vars == <<fm, calls, disk, unasked>>

\* The path null is the crumb of the home folder.
Null == "null"
Path == Dir \cup {Null}
Opens(p) == IF p = Null THEN HomeDir ELSE p
Entry == Dir \X Name

\* currentPath and currentDirPath, which is not known of the home folder
\* before a listing of it had an entry.
Top(stack) == stack[Len(stack)]
Current == Top(fm.stack)
CurrentDir == IF Current = Null THEN fm.root ELSE Current

NoAsk == [rename |-> None, upload |-> None, bulk |-> None, delete |-> None]
Asking == {k \in DOMAIN NoAsk : fm.ask[k] # None}
\* A dialog or sheet covers the page.
Modal == Asking # {} \/ fm.bulk # None

\* The dialog that is on top: they are laid over one another in this order.
OnTop(k) ==
    /\ k \in Asking
    /\ k = "rename" => Asking = {"rename"}
    /\ k = "upload" => Asking \subseteq {"rename", "upload"}
    /\ k = "bulk" => "delete" \notin Asking

\* A request, with the folder that load lists when it is done.
Call(k, a, ov, agreed) == [kind |-> k, path |-> Current, args |-> a, overwrite |-> ov, agreed |-> agreed, for |-> None, at |-> "sent", reply |-> None]
LoadOf(p, b) == [kind |-> "load", path |-> p, for |-> b, args |-> None, overwrite |-> FALSE, agreed |-> {}, at |-> "sent", reply |-> None]
Settled(c) == c.at \in {"done", "failed"}
Room == Cardinality(calls) < MaxCalls
\* Of operations there is a bound, and one for what only looks; what only leads
\* to an operation is not followed when there is to be none.
More == fm.ops < MaxOps
MayAsk == Room /\ More
MayLook == Room /\ fm.looks < MaxLooks

Init ==
    /\ fm = [stack |-> <<Null>>, list |-> {}, loading |-> TRUE, selected |-> {}, root |-> None,
             bulk |-> None, busy |-> {}, ask |-> NoAsk, ops |-> 0, looks |-> 0]
    /\ calls = {LoadOf(Null, None), Call("home", None, FALSE, {})}
    /\ disk \in [Dir -> SUBSET First] /\ unasked = {}

-----------------------------------------------------------------------------
\* The listing.  load does not ask what is open when the answer is there.
Loaded(c) ==
    /\ c.kind = "load" /\ Settled(c)
    /\ LET g == [fm EXCEPT !.loading = FALSE, !.busy = @ \ {c.for}] IN
       fm' = IF c.at = "failed" THEN g
             ELSE [g EXCEPT !.list = c.reply,
                            !.root = IF c.path = Null /\ c.reply # {} THEN HomeDir ELSE @]
    /\ calls' = calls \ {c} /\ UNCHANGED <<disk, unasked>>

\* The root is above home: it gets a crumb in front.
HomeRead(c) ==
    /\ c.kind = "home" /\ Settled(c)
    /\ fm' = IF c.at = "done" /\ Root # HomeDir /\ Head(fm.stack) = Null THEN [fm EXCEPT !.stack = <<Root>> \o @] ELSE fm
    /\ calls' = calls \ {c} /\ UNCHANGED <<disk, unasked>>

Refresh ==
    /\ ~Modal /\ ~fm.loading /\ MayLook
    /\ fm' = [fm EXCEPT !.loading = TRUE, !.looks = @ + 1]
    /\ calls' = calls \cup {LoadOf(Current, None)} /\ UNCHANGED <<disk, unasked>>

\* Another folder: nothing is selected, and it is listed.
Goes(stack) ==
    LET p == Top(stack) IN
    /\ fm' = [fm EXCEPT !.stack = stack, !.looks = @ + 1, !.loading = @ \/ p # Current, !.selected = IF p = Current THEN @ ELSE {}]
    /\ calls' = calls \cup IF p = Current THEN {} ELSE {LoadOf(p, None)}

OpenDir(d) ==
    /\ ~Modal /\ ~fm.loading /\ MayLook /\ Opens(Current) = Root /\ d \in Dir \ {Root}
    /\ Goes(Append(fm.stack, d)) /\ UNCHANGED <<disk, unasked>>

NavigateToCrumb ==
    /\ ~Modal /\ MayLook
    /\ \E i \in 1 .. Len(fm.stack) - 1 : Goes(SubSeq(fm.stack, 1, i))
    /\ UNCHANGED <<disk, unasked>>

-----------------------------------------------------------------------------
\* Selecting.
Select ==
    /\ ~Modal /\ More /\ UNCHANGED <<calls, disk, unasked>>
    /\ \/ ~fm.loading /\ \E e \in fm.list : fm' = [fm EXCEPT !.selected = IF e \in @ THEN @ \ {e} ELSE @ \cup {e}]
       \/ ~fm.loading /\ fm' = [fm EXCEPT !.selected = IF Cardinality(@) = Cardinality(fm.list) THEN {} ELSE fm.list]
       \/ fm.selected # {} /\ fm' = [fm EXCEPT !.selected = {}]

\* The row's form, sent with another name.
SubmitRename(e, n, ov) ==
    /\ n # e[2]
    /\ fm' = [fm EXCEPT !.busy = @ \cup {"rename"}, !.ops = @ + 1]
    /\ calls' = calls \cup {Call("rename", [entry |-> e, name |-> n], ov, IF ov THEN {<<e[1], n>>} ELSE {})}

Rename ==
    /\ ~Modal /\ ~fm.loading /\ MayAsk /\ "rename" \notin fm.busy
    /\ \E e \in fm.list, n \in Name : SubmitRename(e, n, FALSE)
    /\ UNCHANGED <<disk, unasked>>

Renamed(c) ==
    /\ c.kind = "rename" /\ Settled(c)
    /\ LET conflict == c.at = "failed" /\ c.reply = "exists" /\ ~c.overwrite IN
       IF c.at = "failed"
       THEN /\ fm' = [fm EXCEPT !.busy = @ \ {"rename"},
                                !.ask.rename = IF conflict THEN c.args ELSE None]
            /\ calls' = calls \ {c}
       ELSE /\ fm' = [fm EXCEPT !.ask.rename = None, !.loading = TRUE]
            /\ calls' = (calls \ {c}) \cup {LoadOf(c.path, "rename")}
    /\ UNCHANGED <<disk, unasked>>

\* The form for a new folder, submitted where the crumbs are now.
Mkdir ==
    /\ ~Modal /\ CurrentDir # None
    /\ "mkdir" \notin fm.busy /\ MayAsk
    /\ fm' = [fm EXCEPT !.busy = @ \cup {"mkdir"}, !.ops = @ + 1]
    /\ \E n \in Name : calls' = calls \cup {Call("mkdir", <<CurrentDir, n>>, FALSE, {})}
    /\ UNCHANGED <<disk, unasked>>

MkdirDone(c) ==
    /\ c.kind = "mkdir" /\ Settled(c)
    /\ IF c.at = "failed" THEN fm' = [fm EXCEPT !.busy = @ \ {"mkdir"}] /\ calls' = calls \ {c}
       ELSE /\ fm' = [fm EXCEPT !.loading = TRUE]
            /\ calls' = (calls \ {c}) \cup {LoadOf(c.path, "mkdir")}
    /\ UNCHANGED <<disk, unasked>>

\* One item, or the selection as it is when the dialog opens.
AskDelete ==
    /\ ~Modal /\ More /\ UNCHANGED <<calls, disk, unasked>>
    /\ \/ fm.selected # {} /\ fm' = [fm EXCEPT !.ask.delete = fm.selected]
       \/ ~fm.loading /\ \E e \in fm.list : fm' = [fm EXCEPT !.ask.delete = {e}]

Deleted(c) ==
    /\ c.kind = "delete" /\ Settled(c)
    /\ IF c.at = "failed" THEN fm' = [fm EXCEPT !.busy = @ \ {"delete"}, !.ask.delete = None] /\ calls' = calls \ {c}
       ELSE /\ fm' = [fm EXCEPT !.selected = {}, !.loading = TRUE]
            /\ calls' = (calls \ {c}) \cup {LoadOf(c.path, "delete")}
    /\ UNCHANGED <<disk, unasked>>

-----------------------------------------------------------------------------
\* handleUpload: to the folder that is open now.
SubmitUpload(files, ov, agreed) ==
    IF CurrentDir = None THEN fm' = [fm EXCEPT !.ask.upload = None] /\ UNCHANGED calls
    ELSE /\ fm' = [fm EXCEPT !.busy = @ \cup {"upload"}, !.ops = @ + 1, !.ask.upload = None]
         /\ calls' = calls \cup {Call("upload", [dir |-> CurrentDir, files |-> files], ov, agreed)}

Upload ==
    /\ ~Modal /\ MayAsk /\ "upload" \notin fm.busy /\ CurrentDir # None
    /\ \E f \in (SUBSET Name) \ {{}} : SubmitUpload(f, FALSE, {})
    /\ UNCHANGED <<disk, unasked>>

\* The files that were there already are asked about.  (The folder they were
\* refused in is not kept by the code: it says "this folder".)
Uploaded(c) ==
    /\ c.kind = "upload" /\ Settled(c)
    /\ IF c.at = "failed" THEN fm' = [fm EXCEPT !.busy = @ \ {"upload"}] /\ calls' = calls \ {c}
       ELSE /\ fm' = [fm EXCEPT !.ask.upload = IF c.reply = {} THEN None ELSE [dir |-> c.args.dir, files |-> {p.to[2] : p \in c.reply}],
                                !.loading = TRUE]
            /\ calls' = (calls \ {c}) \cup {LoadOf(c.path, "upload")}
    /\ UNCHANGED <<disk, unasked>>

\* The destination dialog.
AskBulk ==
    /\ ~Modal /\ More /\ fm.selected # {}
    /\ \E m \in {"move", "copy"} : fm' = [fm EXCEPT !.bulk = m]
    /\ UNCHANGED <<calls, disk, unasked>>

\* Fault: existing names are always replaced.
SubmitBulkOver(mode, dest, items, ov, agreed) ==
    /\ fm' = [fm EXCEPT !.busy = @ \cup {"bulk"}, !.ops = @ + 1, !.ask.bulk = None]
    /\ calls' = calls \cup {Call(mode, [dir |-> dest, items |-> items], TRUE, agreed)}

SubmitBulk(mode, dest, items, ov, agreed) ==
    /\ fm' = [fm EXCEPT !.busy = @ \cup {"bulk"}, !.ops = @ + 1, !.ask.bulk = None]
    /\ calls' = calls \cup {Call(mode, [dir |-> dest, items |-> items], ov, agreed)}

Bulk ==
    /\ fm.bulk # None /\ Asking = {} /\ "bulk" \notin fm.busy /\ MayAsk
    /\ \E d \in Dir : /\ ~(fm.bulk = "move" /\ d = CurrentDir)
                      /\ SubmitBulk(fm.bulk, d, fm.selected, FALSE, {})
    /\ UNCHANGED <<disk, unasked>>

Bulked(c) ==
    /\ c.kind \in {"move", "copy"} /\ Settled(c)
    /\ IF c.at = "failed" THEN fm' = [fm EXCEPT !.busy = @ \ {"bulk"}] /\ calls' = calls \ {c}
       ELSE /\ fm' = [fm EXCEPT !.ask.bulk = IF c.reply = {} THEN None ELSE [mode |-> c.kind, dir |-> c.args.dir, items |-> {p.from : p \in c.reply}],
                                !.bulk = None, !.selected = {}, !.loading = TRUE]
            /\ calls' = (calls \ {c}) \cup {LoadOf(c.path, "bulk")}
    /\ UNCHANGED <<disk, unasked>>

-----------------------------------------------------------------------------
\* The dialogs are closed, with Escape (which closes all that are open), the
\* backdrop or the button of the sheet.
Close ==
    /\ Modal /\ UNCHANGED <<calls, disk, unasked>>
    /\ \/ Asking # {} /\ fm' = [fm EXCEPT !.ask = NoAsk]
       \/ \E k \in Asking : OnTop(k) /\ fm' = [fm EXCEPT !.ask[k] = None]
       \/ Asking = {} /\ fm' = [fm EXCEPT !.bulk = None]

\* The topmost dialog is confirmed.
ConfirmRename ==
    /\ OnTop("rename") /\ "rename" \notin fm.busy /\ MayAsk
    /\ SubmitRename(fm.ask.rename.entry, fm.ask.rename.name, TRUE) /\ UNCHANGED <<disk, unasked>>

ConfirmUpload ==
    /\ OnTop("upload") /\ "upload" \notin fm.busy /\ MayAsk
    /\ SubmitUpload(fm.ask.upload.files, TRUE, {fm.ask.upload.dir} \X fm.ask.upload.files) /\ UNCHANGED <<disk, unasked>>

ConfirmBulk ==
    /\ OnTop("bulk") /\ "bulk" \notin fm.busy /\ MayAsk
    /\ LET b == fm.ask.bulk IN SubmitBulk(b.mode, b.dir, b.items, TRUE, {<<b.dir, e[2]>> : e \in b.items})
    /\ UNCHANGED <<disk, unasked>>

ConfirmDelete ==
    /\ OnTop("delete") /\ "delete" \notin fm.busy /\ MayAsk
    /\ fm' = [fm EXCEPT !.busy = @ \cup {"delete"}, !.ops = @ + 1]
    /\ calls' = calls \cup {Call("delete", fm.ask.delete, FALSE, {})}
    /\ UNCHANGED <<disk, unasked>>

-----------------------------------------------------------------------------
\* The server.
Has(e) == e[2] \in disk[e[1]]
Listing(d) == {d} \X disk[d]
Answer(c, s, r) == calls' = (calls \ {c}) \cup {[c EXCEPT !.at = s, !.reply = r]}
\* The files a request makes, each of another or of what is sent.  Moving into
\* the folder they are in does nothing; copying there makes a duplicate of
\* another name, which is left out.
Makes(c) ==
    CASE c.kind = "rename" -> {[from |-> c.args.entry, to |-> <<c.args.entry[1], c.args.name>>]}
      [] c.kind = "upload" -> {[from |-> None, to |-> <<c.args.dir, n>>] : n \in c.args.files}
      [] OTHER -> {[from |-> e, to |-> <<c.args.dir, e[2]>>] : e \in {e \in c.args.items : e[1] # c.args.dir}}

\* They are made one after the other, in some order: those that are left, those
\* whose name was taken, and the one whose place was looked at and was free.
Job(c) == IF c.at = "sent" THEN [left |-> Makes(c), exist |-> {}, looked |-> None] ELSE c.reply
Making == {"rename", "move", "copy", "upload"}
Gone(p) == p.from # None /\ ~Has(p.from)

\* The file p came out as r; with the last one the request is answered.
Out(c, p, r) ==
    LET left == Job(c).left \ {p}
        exist == Job(c).exist \cup (IF r = "exists" THEN {p} ELSE {})
    IN IF left # {} THEN [c EXCEPT !.at = "serving", !.reply = [left |-> left, exist |-> exist, looked |-> None]]
       ELSE IF c.kind = "rename" THEN [c EXCEPT !.at = IF r = "done" THEN "done" ELSE "failed", !.reply = r]
       ELSE [c EXCEPT !.at = "done", !.reply = exist]
Becomes(c, d) == calls' = (calls \ {c}) \cup {d}

\* How what is at p's place comes to be replaced: by a request that had found
\* the place free; by an upload that was agreed to for another folder; or else.
How(c, p) ==
    IF ~Has(p.to) \/ p.to \in c.agreed THEN {}
    ELSE IF Job(c).looked = p THEN {"raced"}
    ELSE IF c.kind = "upload" /\ \E e \in c.agreed : e[2] = p.to[2] THEN {"elsewhere"}
    ELSE {c.kind}

Write(c, p) ==
    IF Gone(p) THEN Becomes(c, Out(c, p, "gone")) /\ UNCHANGED <<disk, unasked>>
    ELSE /\ Becomes(c, Out(c, p, "done"))
         /\ disk' = [d \in Dir |-> {n \in Name : <<d, n>> = p.to
                                       \/ (n \in disk[d] /\ ~(c.kind \in {"rename", "move"} /\ <<d, n>> = p.from))}]
         /\ unasked' = unasked \cup How(c, p)

\* Fault: what is at the place is not looked for.
MakeBlindly(c) ==
    /\ c.at \in {"sent", "serving"} /\ c.kind \in Making /\ Job(c).looked = None
    /\ \E p \in Job(c).left : Write(c, p)

\* Without overwrite it is made in one step with the look (RENAME_NOREPLACE),
\* or in a step of its own: a copy, a move to another file system, or a file
\* system that has no such rename.
Make(c) ==
    /\ c.at \in {"sent", "serving"} /\ c.kind \in Making /\ Job(c).looked = None
    /\ \E p \in Job(c).left :
          \/ /\ ~c.overwrite /\ ~Gone(p) /\ Has(p.to)
             /\ Becomes(c, Out(c, p, "exists")) /\ UNCHANGED <<disk, unasked>>
          \/ /\ ~c.overwrite /\ ~Gone(p) /\ ~Has(p.to)
             /\ Becomes(c, [c EXCEPT !.at = "serving", !.reply = [left |-> Job(c).left, exist |-> Job(c).exist, looked |-> p]]) /\ UNCHANGED <<disk, unasked>>
          \/ (Gone(p) \/ c.overwrite \/ (c.kind # "copy" /\ ~Has(p.to))) /\ Write(c, p)

MakeLooked(c) == c.at = "serving" /\ Job(c).looked # None /\ Write(c, Job(c).looked)

\* mkdir makes what is not there, or fails at a file of that name.  A request
\* may fail unserved, and its answer be lost when it is served.
Serve(c) ==
    /\ UNCHANGED fm
    /\ \/ c.at \in {"sent", "done"} /\ Answer(c, "failed", "error") /\ UNCHANGED <<disk, unasked>>
       \/ c.at = "sent" /\ c.kind = "load" /\ Answer(c, "done", Listing(Opens(c.path))) /\ UNCHANGED <<disk, unasked>>
       \/ c.at = "sent" /\ c.kind = "home" /\ Answer(c, "done", None) /\ UNCHANGED <<disk, unasked>>
       \/ c.at = "sent" /\ c.kind \in {"move", "copy"} /\ Makes(c) = {} /\ Answer(c, "done", {}) /\ UNCHANGED <<disk, unasked>>
       \/ /\ c.at = "sent" /\ c.kind = "delete" /\ Answer(c, "done", None) /\ UNCHANGED unasked
          /\ disk' = [d \in Dir |-> {n \in disk[d] : <<d, n>> \notin c.args}]
       \/ /\ c.at = "sent" /\ c.kind = "mkdir" /\ Answer(c, "done", None) /\ UNCHANGED unasked
          /\ disk' = [d \in Dir |-> {n \in Name : n \in disk[d] \/ <<d, n>> = c.args}]
       \/ Make(c) \/ MakeLooked(c)

Next ==
    \/ Refresh \/ NavigateToCrumb \/ Select \/ Rename \/ Mkdir \/ AskDelete \/ Upload \/ AskBulk \/ Bulk
    \/ Close \/ ConfirmRename \/ ConfirmUpload \/ ConfirmBulk \/ ConfirmDelete
    \/ \E d \in Dir : OpenDir(d)
    \/ \E c \in calls : Loaded(c) \/ HomeRead(c) \/ Renamed(c) \/ MkdirDone(c) \/ Deleted(c) \/ Uploaded(c) \/ Bulked(c) \/ Serve(c)

Spec == Init /\ [][Next]_vars

-----------------------------------------------------------------------------
\* Types of the variables.
Operations == {"rename", "mkdir", "delete", "upload", "bulk"}
TypeOK ==
    /\ DOMAIN fm = {"stack", "list", "loading", "selected", "root", "bulk", "busy", "ask", "ops", "looks"}
    /\ DOMAIN fm.ask = DOMAIN NoAsk /\ (fm.ask.bulk = None \/ fm.ask.bulk.mode \in {"move", "copy"})
    /\ fm.stack \in Seq(Path) /\ fm.stack # <<>> /\ fm.list \subseteq Entry /\ fm.selected \subseteq Entry
    /\ fm.loading \in BOOLEAN /\ fm.root \in {None, HomeDir}
    /\ fm.bulk \in {"move", "copy", None} /\ fm.busy \subseteq Operations
    /\ \A c \in calls :
        /\ DOMAIN c = {"kind", "path", "args", "overwrite", "agreed", "for", "at", "reply"}
        /\ c.path \in Path /\ c.for \in Operations \cup {None} /\ c.at \in {"sent", "serving", "done", "failed"}
    /\ disk \in [Dir -> SUBSET Name]

\* The tab waits only for what is on its way.
NothingStuck ==
    /\ fm.loading => \E c \in calls : c.kind = "load"
    /\ \A b \in fm.busy : \E c \in calls : c.for = b \/ c.kind = b \/ (b = "bulk" /\ c.kind \in {"move", "copy"})

\* Nothing is replaced that no dialog has named but what was made after a request
\* had looked for it, and what an upload agreed to for one folder finds in the
\* folder that was opened meanwhile.
OnlyNamedIsReplaced == unasked \subseteq {"raced", "elsewhere"}

\* Only a load is for an operation, and brings what is in a folder; only what
\* makes files takes its time.
LoadFits(c) ==
    /\ c.for # None => c.kind = "load"
    /\ c.kind = "load" /\ c.at = "done" => c.reply \subseteq Entry
    /\ c.at = "serving" => c.kind \in Making

\* A request that replaces names what it replaces, an upload in some folder.
Named(c) ==
    c.overwrite /\ c.kind \in Making /\ c.at \in {"sent", "serving"} =>
        \A p \in Job(c).left : p.to \in c.agreed \/ (c.kind = "upload" /\ \E e \in c.agreed : e[2] = p.to[2])
CallsFit == \A c \in calls : LoadFits(c) /\ Named(c)

IndInv == TypeOK /\ NothingStuck /\ OnlyNamedIsReplaced /\ CallsFit

===============================================================================
