--------------------------- MODULE SessionDirectory ---------------------------
(***************************************************************************)
(* What the session registry promises the rest of webmanager, free of its  *)
(* locks and goroutines: a directory from names to sessions.  A name leads *)
(* to one session and a session has one name; a session enters the         *)
(* directory at most once; once dropped it stays out and is ended; an      *)
(* ended session is dropped.                                               *)
(***************************************************************************)
CONSTANTS Name, Session, NoSession

VARIABLES
    dir,   \* the session each name leads to
    stage, \* of each session: "fresh", "starting", "listed", "dropped"
    ended  \* the sessions whose end has been announced

vars == <<dir, stage, ended>>

Listed == {s \in Session : \E n \in Name : dir[n] = s}

Init ==
    /\ dir = [n \in Name |-> NoSession]
    /\ stage = [s \in Session |-> "fresh"]
    /\ ended = {}

Start(s) ==
    /\ stage[s] = "fresh"
    /\ stage' = [stage EXCEPT ![s] = "starting"]
    /\ UNCHANGED <<dir, ended>>

List(n, s) ==
    /\ stage[s] = "starting"
    /\ dir[n] = NoSession
    /\ stage' = [stage EXCEPT ![s] = "listed"]
    /\ dir' = [dir EXCEPT ![n] = s]
    /\ UNCHANGED ended

\* The name was taken while the session started.
Discard(s) ==
    /\ stage[s] = "starting"
    /\ Listed # {}
    /\ stage' = [stage EXCEPT ![s] = "dropped"]
    /\ UNCHANGED <<dir, ended>>

Rekey(n, m) ==
    /\ dir[n] # NoSession
    /\ dir[m] = NoSession
    /\ dir' = [dir EXCEPT ![n] = NoSession, ![m] = dir[n]]
    /\ UNCHANGED <<stage, ended>>

Drop(S) ==
    /\ S # {} /\ S \subseteq Listed
    /\ stage' = [s \in Session |-> IF s \in S THEN "dropped" ELSE stage[s]]
    /\ dir' = [n \in Name |-> IF dir[n] \in S THEN NoSession ELSE dir[n]]
    /\ UNCHANGED ended

End(s) ==
    /\ stage[s] # "fresh"
    /\ s \notin ended
    /\ ended' = ended \cup {s}
    /\ UNCHANGED <<dir, stage>>

Next ==
    \/ \E s \in Session : Start(s) \/ Discard(s) \/ End(s)
    \/ \E n \in Name, s \in Session : List(n, s)
    \/ \E n \in Name, m \in Name : Rekey(n, m)
    \/ \E S \in SUBSET Session : Drop(S)

Spec == Init /\ [][Next]_vars

FairSpec ==
    /\ Spec
    /\ \A s \in Session :
          /\ WF_vars((\E n \in Name : List(n, s)) \/ Discard(s))
          /\ WF_vars(s \in ended /\ Drop({s}))
          /\ WF_vars(stage[s] = "dropped" /\ End(s))
=============================================================================
