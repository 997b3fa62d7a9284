---------------------------- MODULE FingerprintUnlock ----------------------------
(***************************************************************************)
(* Fingerprint unlocks and enrolments (internal/webauthnunlock and          *)
(* handlers_webauthn.go below src/webmanager/backend): ceremonies that are  *)
(* begun, finished, overtaken and dropped, the credentials they enrol or    *)
(* use, a file that cannot always be saved, restarts, and the backoff of    *)
(* assertions, which is asked before the assertion is verified and told     *)
(* after it, each under its own hold of a mutex.  Whether the password was  *)
(* typed recently is asked of UnlockSessions: IssueFrom may refuse.         *)
(***************************************************************************)
EXTENDS Naturals, Sequences, FiniteSets

CONSTANTS
    Host, Hash,     \* RP IDs, and hashes of the passwords of the gate
    Request,        \* requests in flight
    MaxCeremonies,  \* maxCeremonies
    Threshold,      \* maxFailuresBeforeLockout
    MaxBegun        \* a bound on the ceremonies that are ever begun

VARIABLES
    hash,        \* the gate's
    store,       \* m.doc.Credentials, the file's and its tag, and whether there is a manager
    ceremonies,  \* m.ceremonies
    backoff,     \* the attempts of the client's key: failures, and lockedUntil is to come
    handlers,    \* where each request is
    asked,       \* history: what each ceremony was begun for; its number is its id
    wins,        \* history: how each ceremony was finished with success
    deleted,     \* history: credentials whose deletion was answered
    overrun      \* history: assertions verified during the lockout
vars == <<hash, store, ceremonies, backoff, handlers, asked, wins, deleted, overrun>>

history == <<asked, wins, deleted, overrun>>
Idle == [at |-> "idle"]
Of(creds, h) == {k \in creds : k.host = h}
NoFailures == [failures |-> 0, locked |-> FALSE]

Init ==
    /\ \E h \in Hash : hash = h /\ store = [on |-> TRUE, creds |-> {}, saved |-> {}, tag |-> h]
    /\ ceremonies = {} /\ backoff = NoFailures
    /\ handlers = [r \in Request |-> Idle]
    /\ asked = <<>> /\ wins = <<>> /\ deleted = {} /\ overrun = 0

\* saveLocked of the credentials as they are now: true when it succeeds.
Save(creds, done) == store' = [store EXCEPT !.creds = creds, !.saved = IF done THEN creds ELSE @]

Without(id) == {c \in ceremonies : c.id # id}

\* putCeremony: the expired are swept, and the oldest make room.
Put(kind, h) ==
    LET kept == {c \in ceremonies : ~c.late}
        c == [id |-> Len(asked) + 1, kind |-> kind, host |-> h, late |-> FALSE, creds |-> Of(store.creds, h)]
    IN  /\ Len(asked) < MaxBegun
        /\ \E newest \in SUBSET kept :
              /\ IF Cardinality(kept) < MaxCeremonies THEN newest = kept ELSE Cardinality(newest) = MaxCeremonies - 1
              /\ \A d \in newest, e \in kept \ newest : d.id > e.id
              /\ ceremonies' = newest \cup {c}
        /\ asked' = Append(asked, [kind |-> kind, host |-> h, hash |-> hash]) /\ wins' = Append(wins, <<>>)

\* Fault: what was found stays for the next one.
TakeKept(id) == ceremonies' = ceremonies

\* takeCeremony: whatever it finds under the id is gone ...
Take(id) == ceremonies' = Without(id)

\* ... and is good if it is of this kind and has not expired.
Good(kind, id) == {c \in ceremonies : c.id = id /\ c.kind = kind /\ ~c.late}

Won(id, kind, h) == wins' = [wins EXCEPT ![id] = Append(@, [kind |-> kind, host |-> h])]

\* The lockout of the failures counted so far begins, goes on or ends.
Locks(b) == backoff' = b /\ overrun' = IF b.locked /\ backoff.locked THEN overrun ELSE 0

-----------------------------------------------------------------------------
\* passwordUnlock has accepted a password, for an enrolment on h or not:
\* RecordPasswordUnlock saves the document, or fails to and goes on.
PasswordTyped(r, h) ==
    /\ handlers[r] = Idle /\ store.on
    /\ handlers' = [handlers EXCEPT ![r] = [at |-> "typed", host |-> h]]
    /\ \E done \in BOOLEAN : Save(store.creds, done)
    /\ UNCHANGED <<hash, ceremonies, backoff, history>>

\* BeginRegistration, or the end of a plain unlock.
RegisterBegin(r) ==
    /\ handlers[r].at = "typed"
    /\ handlers' = [handlers EXCEPT ![r] = Idle]
    /\ \/ Put("register", handlers[r].host)
       \/ UNCHANGED <<ceremonies, asked, wins>>
    /\ UNCHANGED <<hash, store, backoff, deleted, overrun>>

\* FinishRegistration of a body that parses, from the origin of its host: the
\* credential of an attestation that is right stays in memory when it cannot
\* be saved.
FinishRegistration(id, h) ==
    /\ store.on
    /\ Take(id)
    /\ \/ UNCHANGED <<store, wins>>
       \/ \E c \in Good("register", id), done \in BOOLEAN :
             /\ c.host = h
             /\ Save(store.creds \cup {[id |-> id, host |-> h, hash |-> hash]}, done)
             /\ Won(id, "register", h)
    /\ UNCHANGED <<hash, backoff, handlers, asked, deleted, overrun>>

-----------------------------------------------------------------------------
\* unlock/begin: CheckAttempt, and IssueFrom, which refuses or not ...
UnlockBegin(r, h) ==
    /\ handlers[r] = Idle /\ store.on /\ ~backoff.locked
    /\ handlers' = [handlers EXCEPT ![r] = [at |-> "asking", host |-> h]]
    /\ UNCHANGED <<hash, store, ceremonies, backoff, history>>

\* ... and BeginUnlock, if anything is enrolled on that host.
BeginUnlock(r) ==
    /\ handlers[r].at = "asking"
    /\ handlers' = [handlers EXCEPT ![r] = Idle]
    /\ IF Of(store.creds, handlers[r].host) = {} THEN UNCHANGED <<ceremonies, asked, wins>>
       ELSE Put("unlock", handlers[r].host)
    /\ UNCHANGED <<hash, store, backoff, deleted, overrun>>

\* Fault: nobody asks the backoff.
UnlockFinishFreely(r, id, h) ==
    /\ handlers[r] = Idle /\ store.on
    /\ handlers' = [handlers EXCEPT ![r] = [at |-> "checked", id |-> id, host |-> h]]
    /\ UNCHANGED <<hash, store, ceremonies, backoff, history>>

\* unlock/finish: CheckAttempt ...
UnlockFinish(r, id, h) ==
    /\ handlers[r] = Idle /\ store.on /\ ~backoff.locked
    /\ handlers' = [handlers EXCEPT ![r] = [at |-> "checked", id |-> id, host |-> h]]
    /\ UNCHANGED <<hash, store, ceremonies, backoff, history>>

Goes(r, to) == handlers' = [handlers EXCEPT ![r] = IF to = "idle" THEN Idle ELSE [at |-> to]]

\* ... FinishUnlock of a body that does not parse, or from another origin,
\* which only the second counts for ...
Unread(r) ==
    /\ handlers[r].at = "checked"
    /\ \E to \in {"idle", "failed"} : Goes(r, to)
    /\ UNCHANGED <<hash, store, ceremonies, backoff, history>>

\* ... of a ceremony that is unknown, of the other kind or expired ...
Unknown(r) ==
    /\ handlers[r].at = "checked" /\ Good("unlock", handlers[r].id) = {}
    /\ Take(handlers[r].id) /\ Goes(r, "idle")
    /\ UNCHANGED <<hash, store, backoff, history>>

\* ... of one begun on another host, or an assertion that is wrong ...
Wrong(r) ==
    /\ handlers[r].at = "checked" /\ Good("unlock", handlers[r].id) # {}
    /\ Take(handlers[r].id) /\ Goes(r, "failed")
    /\ overrun' = IF backoff.locked THEN overrun + 1 ELSE overrun
    /\ UNCHANGED <<hash, store, backoff, asked, wins, deleted>>

\* ... or one that is right, by a credential that was there at its beginning
\* and is there now.  When its use cannot be saved it counts as wrong.
Right(r) ==
    LET h == handlers[r] IN
    /\ h.at = "checked"
    /\ \E c \in Good("unlock", h.id) :
          c.host = h.host /\ c.creds \cap Of(store.creds, h.host) # {}
    /\ Take(h.id)
    /\ \E done \in BOOLEAN :
          /\ Save(store.creds, done)
          /\ Goes(r, IF done THEN "passed" ELSE "failed")
          /\ IF done THEN Won(h.id, "unlock", h.host) ELSE UNCHANGED wins
    /\ overrun' = IF backoff.locked THEN overrun + 1 ELSE overrun
    /\ UNCHANGED <<hash, backoff, asked, deleted>>

\* RecordFailure.
Failed(r) ==
    LET n == IF backoff.failures < Threshold THEN backoff.failures + 1 ELSE Threshold IN
    /\ handlers[r].at = "failed" /\ Goes(r, "idle")
    /\ Locks([failures |-> n, locked |-> backoff.locked \/ n = Threshold])
    /\ UNCHANGED <<hash, store, ceremonies, asked, wins, deleted>>

\* IssueFrom refuses, or RecordSuccess and the cookie.
Passed(r) ==
    /\ handlers[r].at = "passed" /\ Goes(r, "idle")
    /\ (UNCHANGED <<backoff, overrun>> \/ Locks(NoFailures))
    /\ UNCHANGED <<hash, store, ceremonies, asked, wins, deleted>>

-----------------------------------------------------------------------------
\* Fault: the list is changed, the file is not.
DeleteUnsaved(k) ==
    /\ store.on /\ k \in store.creds
    /\ store' = [store EXCEPT !.creds = @ \ {k}]
    /\ deleted' = deleted \cup {k}
    /\ UNCHANGED <<hash, ceremonies, backoff, handlers, asked, wins, overrun>>

\* Delete: the credential comes back when the file cannot be saved.
Delete(k) ==
    /\ store.on /\ k \in store.creds
    /\ Save(store.creds \ {k}, TRUE)
    /\ deleted' = deleted \cup {k}
    /\ UNCHANGED <<hash, ceremonies, backoff, handlers, asked, wins, overrun>>

\* The process ends and starts again, Open reading the file: enrolments under
\* another password are dropped.  Without reading, or saving that, there is no
\* manager.
Restart(h) ==
    /\ hash' = h
    /\ \/ store.tag = h /\ store' = [store EXCEPT !.on = TRUE, !.creds = store.saved]
       \/ store.tag # h /\ store' = [on |-> TRUE, creds |-> {}, saved |-> {}, tag |-> h]
       \/ store' = [store EXCEPT !.on = FALSE, !.creds = {}]
    /\ ceremonies' = {} /\ Locks(NoFailures)
    /\ handlers' = [r \in Request |-> Idle]
    /\ UNCHANGED <<asked, wins, deleted>>

\* Three minutes after it was begun a ceremony has expired.
Expires ==
    /\ \E c \in ceremonies :
          /\ ~c.late /\ \A d \in ceremonies : d.id < c.id => d.late
          /\ ceremonies' = (ceremonies \ {c}) \cup {[c EXCEPT !.late = TRUE]}
    /\ UNCHANGED <<hash, store, backoff, handlers, history>>

LockoutEnds ==
    /\ backoff.locked /\ Locks([backoff EXCEPT !.locked = FALSE])
    /\ UNCHANGED <<hash, store, ceremonies, handlers, asked, wins, deleted>>

Next ==
    \/ Expires \/ LockoutEnds
    \/ \E h \in Hash : Restart(h)
    \/ \E h \in Host, id \in DOMAIN asked : FinishRegistration(id, h)
    \/ \E k \in store.creds : Delete(k)
    \/ \E r \in Request :
          \/ RegisterBegin(r) \/ BeginUnlock(r) \/ Unread(r) \/ Unknown(r) \/ Wrong(r) \/ Right(r) \/ Failed(r) \/ Passed(r)
          \/ \E h \in Host :
                \/ PasswordTyped(r, h) \/ UnlockBegin(r, h)
                \/ \E id \in DOMAIN asked : UnlockFinish(r, id, h)

Spec == Init /\ [][Next]_vars

-----------------------------------------------------------------------------
\* Types of the variables.
Credentials == [id : Nat, host : Host, hash : Hash]
TypeOK ==
    /\ hash \in Hash
    /\ store \in [on : BOOLEAN, creds : SUBSET Credentials, saved : SUBSET Credentials, tag : Hash]
    /\ ceremonies \subseteq [id : Nat, kind : {"register", "unlock"}, host : Host, late : BOOLEAN, creds : SUBSET Credentials]
    /\ IsFiniteSet(ceremonies) /\ Cardinality(ceremonies) <= MaxCeremonies
    /\ backoff \in [failures : 0 .. Threshold, locked : BOOLEAN]
    /\ handlers \in [Request -> [at : {"idle", "failed", "passed"}] \cup [at : {"typed", "asking"}, host : Host]
                                    \cup [at : {"checked"}, id : Nat, host : Host]]
    /\ asked \in Seq([kind : {"register", "unlock"}, host : Host, hash : Hash])
    /\ wins \in Seq(Seq([kind : {"register", "unlock"}, host : Host])) /\ Len(wins) = Len(asked)
    /\ deleted \subseteq Credentials /\ overrun \in Nat

\* The comments on ceremony and takeCeremony: a ceremony is finished once, as
\* what it was begun for and on its host, whoever holds its id; and whatever
\* can unlock was enrolled with the password that is set now.
CeremonyWinsOnce ==
    /\ \A id \in DOMAIN asked :
          wins[id] # <<>> => wins[id] = <<[kind |-> asked[id].kind, host |-> asked[id].host]>>
    /\ \A k \in store.creds :
          k.hash = hash /\ asked[k.id] = [kind |-> "register", host |-> k.host, hash |-> hash]

\* CheckAttempt is no lock: assertions are verified during a lockout, but only
\* those that were let in before it, one for each other request in flight.
OverrunIsBounded == overrun < Cardinality(Request)

\* A credential whose deletion was answered unlocks nothing any more, whatever
\* was saved or failed to be since, and no restart brings it back.
DeletedStaysDeleted == \A k \in deleted : k \notin store'.creds

\* Inductive: a ceremony in progress is one that was begun with the password
\* that is set and was not finished; a credential, even one that was deleted, is
\* what a ceremony was finished for, with the password it was begun with; and who
\* is let in during a lockout was before it.
CeremoniesAreBegun ==
    \A c \in ceremonies :
        /\ c.id \in DOMAIN asked /\ wins[c.id] = <<>>
        /\ asked[c.id] = [kind |-> c.kind, host |-> c.host, hash |-> hash]
        /\ \A d \in ceremonies : d.id = c.id => d = c
CredentialsAreEnrolled ==
    /\ \A k \in store.creds \cup store.saved \cup deleted :
        /\ k.id \in DOMAIN asked /\ wins[k.id] # <<>>
        /\ asked[k.id] = [kind |-> "register", host |-> k.host, hash |-> k.hash]
    /\ \A k \in store.creds : k.hash = hash
    /\ \A k \in store.saved : k.hash = store.tag
    /\ IF store.on THEN store.tag = hash ELSE store.creds = {}
DeletedAreGone == \A k \in deleted : k \notin store.creds /\ k \notin store.saved
LetIn == {r \in Request : handlers[r].at = "checked"}
LetInAreCounted == IF backoff.locked THEN overrun + Cardinality(LetIn) < Cardinality(Request) ELSE overrun = 0

IndInv ==
    /\ TypeOK /\ CeremonyWinsOnce /\ CeremoniesAreBegun /\ CredentialsAreEnrolled /\ DeletedAreGone
    /\ OverrunIsBounded /\ LetInAreCounted
===============================================================================
