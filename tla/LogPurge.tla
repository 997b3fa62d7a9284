-------------------------------- MODULE LogPurge --------------------------------
(***************************************************************************)
(* Purging a day's log file (internal/logstore/logstore.go below            *)
(* src/webmanager/backend) that vector appends to.  vector keeps the file   *)
(* open until it has been idle for 30 seconds, and then opens it again by   *)
(* its name; a purge changes it in place as long as it may be open, and     *)
(* otherwise replaces or removes it.  purgeMu lets one purge run at a time. *)
(* A line is abstracted to its number and whether it is of the app that is  *)
(* purged.  A file is the set of its lines: they stand in it in the order   *)
(* of their numbers, since what is kept was written before what is          *)
(* appended.  The page's reads are LogView's.                               *)
(***************************************************************************)
EXTENDS Naturals, Sequences, FiniteSets

CONSTANTS MaxLines  \* a bound on the lines that vector writes

VARIABLES
    file,    \* the lines of the file at the path, whether it is there, and how long it has been idle
    vector,  \* vector's file: "closed", "open", or "away" when it is no longer the one at the path
    purge,   \* where a purge is
    lines,   \* history: of each line, whether it is of the app
    asked,   \* history: what the last purge was asked to remove, and what a date's purge removed
    risk     \* history: lines written while a purge was past its last read, or to a file that is away
vars == <<file, vector, purge, lines, asked, risk>>

NoPurge == [at |-> "none", age |-> "old", kept |-> {}, seen |-> {}]
Purged(l) == lines[l]
Kept(S) == {l \in S : ~Purged(l)}
\* The lines of a file after the first n.
After(S, n) == {l \in S : Cardinality({k \in S : k <= l}) > n}

Init ==
    /\ file = [lines |-> {}, there |-> FALSE, age |-> "old"]
    /\ vector = "closed" /\ purge = NoPurge
    /\ lines = <<>> /\ asked = [app |-> {}, date |-> {}] /\ risk = [lines |-> {}, reopened |-> FALSE]

-----------------------------------------------------------------------------
\* The steps of a purge at which a line is written too late for it.
TooLate == {"replace", "truncate", "fill"}

\* vector appends a line: it opens the file, making it, unless it has it open.
VectorWrites(app) ==
    LET l == Len(lines) + 1 IN
    /\ l <= MaxLines /\ lines' = Append(lines, app)
    /\ IF vector = "away"
       THEN UNCHANGED <<file, vector>> /\ risk' = [risk EXCEPT !.lines = @ \cup {l}]
       ELSE /\ file' = [lines |-> file.lines \cup {l}, there |-> TRUE, age |-> "fresh"]
            /\ vector' = "open"
            /\ risk' = [lines |-> IF purge.at \in TooLate THEN risk.lines \cup {l} ELSE risk.lines,
                        reopened |-> risk.reopened \/ (vector = "closed" /\ purge.at # "none")]
    /\ UNCHANGED <<purge, asked>>

\* Time passes: the file has not been written for 30 seconds, or for 5
\* minutes; by then vector has closed it.
Ages ==
    /\ file.there /\ file.age # "old"
    /\ file' = [file EXCEPT !.age = IF @ = "fresh" THEN "idle" ELSE "old"]
    /\ vector' = IF vector = "open" THEN "closed" ELSE vector
    /\ UNCHANGED <<purge, lines, asked, risk>>

\* It has its own idea of how long that is, and of a file that was taken away.
VectorCloses ==
    /\ vector # "closed" /\ vector' = "closed"
    /\ UNCHANGED <<file, purge, lines, asked, risk>>

\* Fault: no file counts as one that vector has open.
MayHaveOpenNow(age) == FALSE

\* vectorMayHaveOpen of a file of that age.
MayHaveOpen(age) == age # "old"

-----------------------------------------------------------------------------
\* purgeAppFromFile opens the file and asks how old it is ...
PurgeApp ==
    /\ purge = NoPurge /\ file.there
    /\ purge' = [NoPurge EXCEPT !.at = "read", !.age = file.age]
    /\ asked' = [asked EXCEPT !.app = {l \in file.lines : Purged(l)}]
    /\ risk' = [risk EXCEPT !.reopened = @ /\ vector = "away"]
    /\ UNCHANGED <<file, vector, lines>>

\* ... filters it to its end, and leaves it when there is nothing to remove
\* (an idle file may have become an old one meanwhile) ...
Read ==
    /\ purge.at = "read"
    /\ \E age \in {purge.age} \cup (IF purge.age = "idle" THEN {"old"} ELSE {}) :
          purge' = IF \A l \in file.lines : ~Purged(l) THEN NoPurge
                   ELSE [purge EXCEPT !.at = IF MayHaveOpen(age) THEN "more" ELSE "replace",
                                      !.kept = Kept(file.lines), !.seen = file.lines]
    /\ UNCHANGED <<file, vector, lines, asked, risk>>

\* ... replaces it ...
Replace ==
    /\ purge.at = "replace"
    /\ file' = [lines |-> purge.kept, there |-> TRUE, age |-> "fresh"]
    /\ vector' = IF vector = "open" THEN "away" ELSE vector
    /\ purge' = NoPurge
    /\ UNCHANGED <<lines, asked, risk>>

\* Fault: what was appended meanwhile is not looked at.
ReadMoreNot ==
    /\ purge.at = "more"
    /\ purge' = [purge EXCEPT !.at = "truncate"]
    /\ UNCHANGED <<file, vector, lines, asked, risk>>

\* ... or reads what was appended meanwhile ...
ReadMore ==
    /\ purge.at = "more"
    /\ purge' = [purge EXCEPT !.at = "truncate", !.kept = @ \cup Kept(file.lines \ purge.seen)]
    /\ UNCHANGED <<file, vector, lines, asked, risk>>

\* Fault: the file keeps its length.
TruncateNot ==
    /\ purge.at = "truncate"
    /\ purge' = [purge EXCEPT !.at = "fill"]
    /\ UNCHANGED <<file, vector, lines, asked, risk>>

\* ... empties the file ...
Truncate ==
    /\ purge.at = "truncate"
    /\ file' = [file EXCEPT !.lines = {}, !.age = "fresh"]
    /\ purge' = [purge EXCEPT !.at = "fill"]
    /\ UNCHANGED <<vector, lines, asked, risk>>

\* ... and writes what is kept from its beginning, over what was appended.
Fill ==
    /\ purge.at = "fill"
    /\ file' = [file EXCEPT !.lines = purge.kept \cup After(@, Cardinality(purge.kept)), !.age = "fresh"]
    /\ purge' = NoPurge
    /\ UNCHANGED <<vector, lines, asked, risk>>

\* A read or a write fails, or webmanager ends: what was to be written back
\* is lost.
Fails ==
    /\ purge # NoPurge
    /\ purge' = NoPurge /\ asked' = [asked EXCEPT !.app = {}]
    /\ risk' = IF purge.at = "fill" THEN [risk EXCEPT !.lines = @ \cup purge.kept] ELSE risk
    /\ UNCHANGED <<file, vector, lines>>

-----------------------------------------------------------------------------
\* PurgeDate asks how old the file is ...
PurgeDate ==
    /\ purge = NoPurge /\ file.there
    /\ purge' = [NoPurge EXCEPT !.at = IF MayHaveOpen(file.age) THEN "empty" ELSE "remove"]
    /\ risk' = [risk EXCEPT !.reopened = @ /\ vector = "away"]
    /\ UNCHANGED <<file, vector, lines, asked>>

\* ... and empties or removes it.
EmptyOrRemove ==
    /\ purge.at \in {"empty", "remove"}
    /\ asked' = [asked EXCEPT !.date = @ \cup file.lines]
    /\ file' = [lines |-> {}, there |-> purge.at = "empty", age |-> "fresh"]
    /\ vector' = IF vector = "open" /\ purge.at = "remove" THEN "away" ELSE vector
    /\ purge' = NoPurge
    /\ UNCHANGED <<lines, risk>>

Next ==
    \/ \E app \in BOOLEAN : VectorWrites(app)
    \/ Ages \/ VectorCloses
    \/ PurgeApp \/ Read \/ Replace \/ ReadMore \/ Truncate \/ Fill \/ Fails \/ PurgeDate \/ EmptyOrRemove

Spec == Init /\ [][Next]_vars

-----------------------------------------------------------------------------
\* Types of the variables.
Age == {"fresh", "idle", "old"}
TypeOK ==
    /\ lines \in Seq(BOOLEAN)
    /\ file \in [lines : SUBSET DOMAIN lines, there : BOOLEAN, age : Age]
    /\ vector \in {"closed", "open", "away"}
    /\ purge \in [at : {"none", "read", "replace", "more", "truncate", "fill", "empty", "remove"}, age : Age,
                  kept : SUBSET DOMAIN lines, seen : SUBSET DOMAIN lines]
    /\ asked \in [app : SUBSET DOMAIN lines, date : SUBSET DOMAIN lines]
    /\ risk \in [lines : SUBSET DOMAIN lines, reopened : BOOLEAN]

\* The comment on purgeAppFromFile: a line of another app survives a purge,
\* unless it was written after the purge's last read, or to a file that had
\* been replaced, or the purge failed between emptying the file and filling it.
OthersSurvive ==
    \A l \in DOMAIN lines :
        ~Purged(l) => \/ l \in file.lines \/ l \in asked.date \cup risk.lines
                      \/ purge.at = "fill" /\ l \in purge.kept

\* What a purge of an app was asked to remove is not in the file afterwards.
PurgedIsGone == purge = NoPurge => asked.app \cap file.lines = {}

\* The comment on vectorMayHaveOpen: vector writes to the file that the page
\* reads, unless it opened a file of five minutes while that was being purged.
VectorIsSeen == vector = "away" => risk.reopened

\* Inductive: what a purge holds to write back has no line it was asked to
\* remove, and of the lines it has read all the others; what is in a file that
\* it emptied came too late for it.
KeptIsRight ==
    /\ \A l \in asked.app : Purged(l)
    /\ purge.at = "none" => purge = NoPurge
    /\ purge.at \in {"replace", "more", "truncate", "fill"} => \A l \in purge.kept : ~Purged(l)
    /\ purge.at = "more" => Kept(purge.seen) \subseteq purge.kept
    /\ purge.at \in {"replace", "truncate"} => Kept(file.lines) \subseteq purge.kept \cup risk.lines
    /\ purge.at = "fill" => file.lines \subseteq risk.lines /\ asked.app \cap file.lines = {}

\* Inductive: vector has no file open that may be replaced or removed, but
\* one that it opened while that was decided; what it has open is fresh.
OpenIsFresh ==
    /\ vector = "open" => file.age = "fresh"
    /\ vector = "open" /\ (purge.at \in {"replace", "remove"} \/ (purge.at = "read" /\ purge.age # "fresh")) => risk.reopened

IndInv == TypeOK /\ OthersSurvive /\ PurgedIsGone /\ VectorIsSeen /\ KeptIsRight /\ OpenIsFresh
================================================================================
