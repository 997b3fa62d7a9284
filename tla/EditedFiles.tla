------------------------------ MODULE EditedFiles ------------------------------
(***************************************************************************)
(* The editors of one stored text: the file editor (FileEditorSheet), the   *)
(* raw files of Git Config and SSH (RawConfigEditor, SshConfigRaw,          *)
(* GlobalGitignore), Claude's settings.json, and the forms of GitUserForm,  *)
(* AiTrailer and CommitSigning.  All load the text when they are mounted,   *)
(* let it be edited - also while a save is on its way - and save it; they   *)
(* differ in how a save guards what somebody else wrote meanwhile (an       *)
(* agent, a terminal, another window) and in what it leaves in the editor.  *)
(***************************************************************************)
EXTENDS Naturals, FiniteSets

CONSTANTS Text, Empty,          \* what can be written; Empty is in an editor that loaded nothing
          MaxSaves, MaxWrites,  \* bounds: saves asked for, writes of somebody else
          None

VARIABLES
    ed,     \* the editor
    calls,  \* its requests on their way
    file,   \* the text that is stored, and all texts that were
    lost    \* the writes of others that a save replaced
vars == <<ed, calls, file, lost>>

-----------------------------------------------------------------------------
\* What an editor does.  guard: a save is compared with the stored text by
\* the server ("version"), by the page before it is sent ("compare") or not
\* at all ("none").  after: a save that succeeded leaves the text that was
\* "sent" as the saved one, is followed by a "reload", or puts the server's
\* "answer" in the fields.  retry: a load that failed leaves no editor.
\* asks: closing it with unsaved text asks first.
FileEditorSheet == [guard |-> "version", after |-> "sent", retry |-> TRUE, asks |-> TRUE]
RawConfigEditor == [guard |-> "compare", after |-> "sent", retry |-> FALSE, asks |-> FALSE]
SshConfigRaw == [guard |-> "compare", after |-> "sent", retry |-> FALSE, asks |-> FALSE]
GlobalGitignore == [guard |-> "compare", after |-> "sent", retry |-> FALSE, asks |-> FALSE]
ClaudeSettings == [guard |-> "compare", after |-> "reload", retry |-> FALSE, asks |-> FALSE]
GitUserForm == [guard |-> "none", after |-> "answer", retry |-> FALSE, asks |-> FALSE]
AiTrailer == [guard |-> "none", after |-> "answer", retry |-> FALSE, asks |-> FALSE]
CommitSigning == [guard |-> "none", after |-> "answer", retry |-> FALSE, asks |-> FALSE]
Editor == {FileEditorSheet, RawConfigEditor, SshConfigRaw, GlobalGitignore, ClaudeSettings, GitUserForm, AiTrailer, CommitSigning}

-----------------------------------------------------------------------------
\* A request of the mounted editor.
Call(k, body, base, seen, press) ==
    [kind |-> k, body |-> body, base |-> base, seen |-> seen, press |-> press, at |-> "sent", reply |-> None]
Load == {Call("load", None, None, None, None)}

Answered(c) == c.at \in {"done", "failed"}

\* Text that is neither what was loaded nor what was saved last.
Dirty == ed.text # ed.saved

Init ==
    /\ \E e \in Editor : ed = [is |-> e, phase |-> "loading", text |-> Empty, saved |-> Empty,
                               base |-> IF e = ClaudeSettings THEN None ELSE Empty, busy |-> "no", changed |-> FALSE, discard |-> FALSE, saves |-> 0]
    /\ calls = Load
    /\ \E t \in Text : file = [text |-> t, was |-> {t}, writes |-> 0]
    /\ lost = {}

\* load.  One that fails leaves the empty editor, or a button to try again.
Loaded(c) ==
    /\ c.kind = "load" /\ Answered(c) /\ calls' = calls \ {c} /\ UNCHANGED <<file, lost>>
    /\ ed' = IF c.at = "failed"
             THEN [ed EXCEPT !.phase = IF @ = "loading" /\ ed.is.retry THEN "failed" ELSE "ready", !.busy = "no"]
             ELSE [ed EXCEPT !.phase = "ready", !.text = c.reply, !.saved = c.reply, !.base = c.reply, !.busy = "no"]

Retry ==
    /\ ed.phase = "failed" /\ ed' = [ed EXCEPT !.phase = "loading"] /\ calls' = Load /\ UNCHANGED <<file, lost>>

\* Nothing is read-only while a save is on its way.
Type(t) ==
    /\ ed.phase = "ready" /\ ~ed.changed /\ ~ed.discard /\ t # ed.text
    /\ ed' = [ed EXCEPT !.text = t] /\ UNCHANGED <<calls, file, lost>>

-----------------------------------------------------------------------------
\* handleSave: the text of this moment is sent, at once or when the stored
\* one is seen to be the one that was loaded.
Save(force) ==
    /\ ed.phase = "ready" /\ ed.busy = "no" /\ ed.saves < MaxSaves /\ ~ed.discard
    /\ force = ed.changed
    /\ LET compare == ed.is.guard = "compare" IN
       /\ ed' = [ed EXCEPT !.busy = IF compare THEN "check" ELSE "put", !.saves = @ + 1]
       /\ calls' = {Call(IF compare THEN "check" ELSE "put", ed.text, IF force THEN None ELSE ed.base, IF force THEN None ELSE ed.saved, file.writes)}
    /\ UNCHANGED <<file, lost>>

\* Fault: what was found is what the next save is compared with.
CheckedAdopts(c) ==
    /\ c.kind = "check" /\ Answered(c) /\ UNCHANGED <<file, lost>>
    /\ IF c.at = "done" /\ c.reply = ed.base
       THEN ed' = [ed EXCEPT !.busy = "put"] /\ calls' = {Call("put", c.body, c.base, c.seen, c.press)}
       ELSE ed' = [ed EXCEPT !.busy = "no", !.base = IF c.at = "done" THEN c.reply ELSE @] /\ calls' = {}

\* It is compared with the text as it was loaded; another one is refused.
Checked(c) ==
    /\ c.kind = "check" /\ Answered(c) /\ UNCHANGED <<file, lost>>
    /\ IF c.at = "done" /\ c.reply = ed.base
       THEN ed' = [ed EXCEPT !.busy = "put"] /\ calls' = {Call("put", c.body, c.base, c.seen, c.press)}
       ELSE ed' = [ed EXCEPT !.busy = "no"] /\ calls' = {}

\* Fault: the text of this moment counts as saved.
SavedNow(c) ==
    /\ c.kind = "put" /\ Answered(c) /\ UNCHANGED <<file, lost>>
    /\ IF c.at = "failed" THEN ed' = [ed EXCEPT !.busy = "no", !.changed = @ \/ c.reply = "changed"] /\ calls' = {}
       ELSE IF ed.is.after = "reload" THEN ed' = [ed EXCEPT !.busy = "reload"] /\ calls' = Load
       ELSE /\ ed' = [ed EXCEPT !.busy = "no", !.saved = ed.text, !.base = c.body, !.changed = FALSE,
                                !.text = IF ed.is.after = "answer" THEN c.body ELSE @]
            /\ calls' = {}

\* What was sent is what is saved.  A refusal asks whether to overwrite.
Saved(c) ==
    /\ c.kind = "put" /\ Answered(c) /\ UNCHANGED <<file, lost>>
    /\ IF c.at = "failed" THEN ed' = [ed EXCEPT !.busy = "no", !.changed = @ \/ c.reply = "changed"] /\ calls' = {}
       ELSE IF ed.is.after = "reload" THEN ed' = [ed EXCEPT !.busy = "reload"] /\ calls' = Load
       ELSE /\ ed' = [ed EXCEPT !.busy = "no", !.saved = c.body, !.base = c.body, !.changed = FALSE,
                                !.text = IF ed.is.after = "answer" THEN c.body ELSE @]
            /\ calls' = {}

\* The question whether to overwrite is dismissed.
KeepTheirs == ed.changed /\ ed' = [ed EXCEPT !.changed = FALSE] /\ UNCHANGED <<calls, file, lost>>

\* The editor is closed, or its tab left: the sheet asks about unsaved text.
Close ==
    /\ ~ed.changed /\ ed.phase # "closed" /\ UNCHANGED <<file, lost>>
    /\ IF ed.is.asks /\ Dirty /\ ~ed.discard THEN ed' = [ed EXCEPT !.discard = TRUE] /\ UNCHANGED calls
       ELSE ed' = [ed EXCEPT !.phase = "closed", !.busy = "no"] /\ UNCHANGED calls

BackToEditor == ed.discard /\ ed.phase # "closed" /\ ed' = [ed EXCEPT !.discard = FALSE] /\ UNCHANGED <<calls, file, lost>>

-----------------------------------------------------------------------------
\* Somebody else writes the file.
OtherWrites(t) ==
    /\ file.writes < MaxWrites /\ t # file.text
    /\ file' = [text |-> t, was |-> file.was \cup {t}, writes |-> file.writes + 1]
    /\ UNCHANGED <<ed, calls, lost>>

\* The server compares the version it is given, and writes in another step.
ServeBase(c) ==
    /\ LET refused == ed.is.guard = "version" /\ c.base # None /\ c.base # file.text
       IN calls' = {IF refused THEN [c EXCEPT !.at = "failed", !.reply = "changed"] ELSE [c EXCEPT !.at = "passed"]}
    /\ UNCHANGED <<file, lost>>

\* A write that replaces a text the editor never saw is remembered: whether it
\* was there "before" the save was asked for or came "during" it.
ServePut(c) ==
    LET unseen == c.seen # None /\ c.seen # file.text
    IN /\ calls' = {[c EXCEPT !.at = "done"]}
       /\ file' = [file EXCEPT !.text = c.body, !.was = @ \cup {c.body}]
       /\ lost' = IF unseen THEN lost \cup {<<ed.is.guard, IF c.press = file.writes THEN "before" ELSE "during">>} ELSE lost

Serve(c) ==
    /\ c.at \in {"sent", "passed"} /\ UNCHANGED ed
    /\ \/ calls' = {[c EXCEPT !.at = "failed", !.reply = "error"]} /\ UNCHANGED <<file, lost>>
       \/ c.kind \in {"load", "check"} /\ calls' = {[c EXCEPT !.at = "done", !.reply = file.text]} /\ UNCHANGED <<file, lost>>
       \/ c.kind = "put" /\ c.at = "sent" /\ ServeBase(c)
       \/ c.at = "passed" /\ ServePut(c)

\* What is answered once the editor is closed sets nothing: the check that
\* was under way still sends its save.
Late(c) ==
    /\ ed.phase = "closed" /\ Answered(c) /\ UNCHANGED <<ed, file, lost>>
    /\ calls' = IF c.kind = "check" /\ c.at = "done" /\ c.reply = ed.base THEN {Call("put", c.body, c.base, c.seen, c.press)} ELSE {}

Next ==
    \/ Retry \/ KeepTheirs \/ Close \/ BackToEditor
    \/ \E t \in Text : Type(t) \/ OtherWrites(t)
    \/ \E force \in BOOLEAN : Save(force)
    \/ \E c \in calls : Serve(c) \/ Late(c) \/ (ed.phase # "closed" /\ (Loaded(c) \/ Checked(c) \/ Saved(c)))

Spec == Init /\ [][Next]_vars

-----------------------------------------------------------------------------
\* Types of the variables.
Texts == Text \cup {Empty}
Editors == [is : Editor, phase : {"loading", "failed", "ready", "closed"}, text : Texts, saved : Texts,
            base : Texts \cup {None}, busy : {"no", "check", "put", "reload"}, changed : BOOLEAN, discard : BOOLEAN, saves : Nat]
Requests == [kind : {"load", "check", "put"}, body : Texts \cup {None}, base : Texts \cup {None}, seen : Texts \cup {None},
             press : Nat \cup {None}, at : {"sent", "passed", "done", "failed"}, reply : Texts \cup {None, "changed", "error"}]
TypeOK ==
    /\ ed \in Editors /\ calls \subseteq Requests
    /\ file \in [text : Texts, was : SUBSET Texts, writes : Nat]

\* A save waits only for what is on its way.
NothingStuck == (ed.phase = "loading" \/ (ed.phase = "ready" /\ ed.busy # "no")) => calls # {}

\* The comments on version and loadedContentRef: what somebody wrote before a
\* save was asked for, and the editor never showed, is not overwritten by it;
\* the forms of the settings that are set one by one guard nothing.
OthersAreKept == \A l \in lost : l[2] = "during" \/ l[1] = "none"

\* What the sheet closes without asking was stored once.
SavedWasStored == (ed.is.asks /\ ed.phase = "ready") => ed.saved \in file.was

\* What is saved is what the stored text is compared with, where the editor
\* has one; a text that is stored was.
BaseIsSaved == (ed.base = None /\ ed.is.guard = "compare") \/ ed.base = ed.saved
TextWas == file.text \in file.was

\* One request at a time, of the kind the editor waits for.
OneCall == \A c, d \in calls : c = d
CallFits ==
    \A c \in calls :
        /\ c.kind = "load" => ed.phase \in {"loading", "closed"} \/ (ed.phase = "ready" /\ ed.is.after = "reload")
        /\ c.kind # "load" => ed.phase \in {"ready", "closed"}
        /\ c.kind # "put" => c.at # "passed"

\* What was read or written was stored once.
AnswersWere ==
    \A c \in calls : c.at = "done" => IF c.kind = "put" THEN c.body \in file.was ELSE c.reply \in file.was

\* A save is of the text that was saved last, which is still the stored one
\* when nobody wrote since it was asked for and its guard has looked.
Looked(c) ==
    \/ c.kind = "check" /\ c.at = "done" /\ c.reply = ed.saved
    \/ c.kind = "put" /\ ed.is.guard = "compare" /\ c.at \in {"sent", "passed"}
    \/ c.kind = "put" /\ ed.is.guard = "version" /\ c.at = "passed"
SavesFit ==
    \A c \in calls : c.kind # "load" =>
        /\ c.body \in Texts /\ c.press \in Nat /\ c.press <= file.writes
        /\ c.seen \in {None, ed.saved}
        /\ c.kind = "check" => ed.is.guard = "compare"
        /\ c.kind = "check" /\ c.at = "done" /\ c.press = file.writes => c.reply = file.text
        /\ ed.is.guard = "version" => c.base = c.seen
        /\ Looked(c) /\ c.press = file.writes /\ c.seen # None => c.seen = file.text

IndInv ==
    /\ TypeOK /\ NothingStuck /\ OthersAreKept /\ SavedWasStored
    /\ BaseIsSaved /\ TextWas /\ OneCall /\ CallFits /\ AnswersWere /\ SavesFit

===============================================================================
