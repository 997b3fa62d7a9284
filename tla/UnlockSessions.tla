----------------------------- MODULE UnlockSessions -----------------------------
(***************************************************************************)
(* The unlock sessions of internal/authgate (gate.go) and the time of the  *)
(* last typed password that internal/webauthnunlock keeps for them.        *)
(*                                                                         *)
(* A session lives in its tokens only: signed records of when it started   *)
(* and when it was last slid forward, which a browser, and any copy of its *)
(* cookie, presents again.  The server remembers the sessions it has       *)
(* revoked, for as long as their tokens could work, and nothing else; a    *)
(* restart draws a new secret, so no token survives it.                    *)
(*                                                                         *)
(* Times are whole ticks of one clock, as the tokens' are whole seconds.   *)
(***************************************************************************)
EXTENDS Naturals

CONSTANTS
    Request,   \* handlers in flight
    Sid,       \* session ids (newSessionID)
    Hash,      \* password hashes the container is started with
    TTL,       \* sessionTTL
    Refresh,   \* refreshThreshold
    MaxLife,   \* maxSessionLifetime
    Reauth,    \* passwordReauthInterval
    MaxNow     \* bound: the end of time

ASSUME SessionsAssumption ==
    /\ {TTL, Refresh, MaxLife, Reauth} \subseteq Nat \ {0}
    /\ Refresh <= TTL /\ MaxLife <= Reauth
    /\ MaxNow \in Nat \ {0}

VARIABLES
    now,
    hash,       \* Gate.hash of the running process
    tokens,     \* every token a browser has been sent since the start
    revoked,    \* Gate.revoked: until when; 0 without an entry
    doc,        \* Manager.doc: [tag, at], its HashTag and PasswordAt
    saved,      \* the same two on disk
    enabled,    \* whether Open succeeded, that is s.webauthn # nil
    pc, tok, at,  \* each handler's place, token and time
    typedAt,    \* when a request that typed each password was last accepted; 0 for never
    started,    \* when each session was issued
    used,       \* when a request last slid each session, or meant to
    dead        \* the sessions Revoke has returned for

server == <<hash, tokens, revoked, enabled>>
store == <<doc, saved>>
history == <<typedAt, started, used, dead>>
vars == <<now, server, store, pc, tok, at, history>>

Time == 0..MaxNow
Token == [sid : Sid, origin : Time, refreshed : Time]
NoToken == [sid |-> "none", origin |-> 0, refreshed |-> 0]
Document == [tag : Hash, at : Time]

\* parseToken: the times are in order and the session is not revoked.
Parses(t) ==
    /\ t.origin <= now /\ t.refreshed <= now /\ t.origin <= t.refreshed
    /\ revoked[t.sid] = 0

\* Fault: the idle deadline is left to the cookie's MaxAge.
UnlockedHardOnly(t) == Parses(t) /\ now < t.origin + MaxLife

\* UnlockedUntil.
Unlocked(t) ==
    /\ Parses(t)
    /\ now < t.refreshed + TTL /\ now < t.origin + MaxLife

Idle(a) == pc[a] = "idle"

Finish(a) ==
    /\ pc' = [pc EXCEPT ![a] = "idle"]
    /\ tok' = [tok EXCEPT ![a] = NoToken]
    /\ at' = [at EXCEPT ![a] = 0]

\* A random id nobody has.
FreshSid(s) ==
    /\ \A t \in tokens : t.sid # s
    /\ \A a \in Request : tok[a].sid # s
    /\ s \notin dead /\ revoked[s] = 0

Init ==
    /\ now = 1
    /\ hash \in Hash
    /\ tokens = {}
    /\ revoked = [s \in Sid |-> 0]
    /\ doc = [tag |-> hash, at |-> 0] /\ saved = doc
    /\ enabled = TRUE
    /\ pc = [a \in Request |-> "idle"]
    /\ tok = [a \in Request |-> NoToken]
    /\ at = [a \in Request |-> 0]
    /\ typedAt = [h \in Hash |-> 0]
    /\ started = [s \in Sid |-> 0]
    /\ used = [s \in Sid |-> 0]
    /\ dead = {}

-----------------------------------------------------------------------------
(* POST /api/auth/unlock *)

\* TryUnlock accepts a typed password and issues a token for this moment.
Type(a, s) ==
    /\ Idle(a) /\ FreshSid(s)
    /\ pc' = [pc EXCEPT ![a] = "typed"]
    /\ tok' = [tok EXCEPT ![a] = [sid |-> s, origin |-> now, refreshed |-> now]]
    /\ typedAt' = [typedAt EXCEPT ![hash] = now]
    /\ started' = [started EXCEPT ![s] = now]
    /\ used' = [used EXCEPT ![s] = 0]
    /\ UNCHANGED <<now, server, store, at, dead>>

\* passwordUnlock reads the clock again, for RecordPasswordUnlock; the password
\* counts as typed until here, where its request has been accepted.
Stamp(a) ==
    /\ pc[a] = "typed"
    /\ pc' = [pc EXCEPT ![a] = "stamped"]
    /\ at' = [at EXCEPT ![a] = now]
    /\ typedAt' = [typedAt EXCEPT ![hash] = now]
    /\ UNCHANGED <<now, server, store, tok, started, used, dead>>

\* RecordPasswordUnlock, where there is a store; the write to disk may fail,
\* which is only logged.  Then the response takes the cookie to the browser.
Record(a) ==
    /\ pc[a] = "stamped"
    /\ tokens' = tokens \cup {tok[a]}
    /\ IF enabled THEN doc' = [doc EXCEPT !.at = at[a]] /\ saved' \in {saved, doc'}
                  ELSE UNCHANGED store
    /\ Finish(a)
    /\ UNCHANGED <<now, hash, revoked, enabled, history>>

-----------------------------------------------------------------------------
(* POST /api/auth/webauthn/unlock/finish *)

\* The assertion was right, and PasswordAt is read.
Asserted(a) ==
    /\ Idle(a) /\ enabled
    /\ pc' = [pc EXCEPT ![a] = "asserted"]
    /\ at' = [at EXCEPT ![a] = doc.at]
    /\ UNCHANGED <<now, server, store, tok, history>>

\* Whether IssueFrom(passwordAt) issues anything.
Recent(passwordAt) == passwordAt # 0 /\ passwordAt <= now /\ now < passwordAt + Reauth

\* Fault: the session's origin is not moved back.
OriginNow(passwordAt) == now

\* IssueFrom's origin: moved back where the password's window closes before a
\* session started now would.
Origin(passwordAt) ==
    IF passwordAt + Reauth < now + MaxLife THEN passwordAt + Reauth - MaxLife ELSE now

\* IssueFrom, and the response with its cookie.
IssueFrom(a, s) ==
    /\ pc[a] = "asserted" /\ Recent(at[a]) /\ FreshSid(s)
    /\ tokens' = tokens \cup {[sid |-> s, origin |-> Origin(at[a]), refreshed |-> now]}
    /\ started' = [started EXCEPT ![s] = now]
    /\ used' = [used EXCEPT ![s] = 0]
    /\ Finish(a)
    /\ UNCHANGED <<now, hash, revoked, enabled, store, typedAt, dead>>

\* IssueFrom refuses.
Refuse(a) ==
    /\ pc[a] = "asserted" /\ ~Recent(at[a])
    /\ Finish(a)
    /\ UNCHANGED <<now, server, store, history>>

-----------------------------------------------------------------------------
(* RequirePassword *)

\* Unlocked lets a request through ...
Validate(a, t) ==
    /\ Idle(a) /\ Unlocked(t)
    /\ pc' = [pc EXCEPT ![a] = "validated"]
    /\ tok' = [tok EXCEPT ![a] = t]
    /\ UNCHANGED <<now, server, store, at, history>>

\* ... and refreshCookie parses its token once more, without its deadlines.
Reparse(a) ==
    /\ pc[a] = "validated"
    /\ IF Parses(tok[a])
         THEN pc' = [pc EXCEPT ![a] = "sliding"] /\ UNCHANGED <<tok, at>>
         ELSE Finish(a)
    /\ UNCHANGED <<now, server, store, history>>

\* Fault: a refreshed token starts a session of its own.
SlideResets(a) ==
    /\ pc[a] = "sliding"
    /\ IF now < tok[a].refreshed + Refresh
         THEN UNCHANGED tokens
         ELSE tokens' = tokens \cup {[tok[a] EXCEPT !.origin = now, !.refreshed = now]}
    /\ used' = [used EXCEPT ![tok[a].sid] = now]
    /\ Finish(a)
    /\ UNCHANGED <<now, hash, revoked, enabled, store, typedAt, started, dead>>

\* Fault: a token is slid only once it has nothing left.
SlideLate(a) ==
    /\ pc[a] = "sliding"
    /\ IF now < tok[a].refreshed + TTL
         THEN UNCHANGED tokens
         ELSE tokens' = tokens \cup {[tok[a] EXCEPT !.refreshed = now]}
    /\ used' = [used EXCEPT ![tok[a].sid] = now]
    /\ Finish(a)
    /\ UNCHANGED <<now, hash, revoked, enabled, store, typedAt, started, dead>>

\* refreshCookie: nothing for a token younger than the threshold, or one more
\* token of the same session.
Slide(a) ==
    /\ pc[a] = "sliding"
    /\ IF now < tok[a].refreshed + Refresh
         THEN UNCHANGED tokens
         ELSE tokens' = tokens \cup {[tok[a] EXCEPT !.refreshed = now]}
    /\ used' = [used EXCEPT ![tok[a].sid] = now]
    /\ Finish(a)
    /\ UNCHANGED <<now, hash, revoked, enabled, store, typedAt, started, dead>>

-----------------------------------------------------------------------------
(* POST /api/auth/lock *)

\* Revoke parses the caller's token ...
RevokeParse(a, t) ==
    /\ Idle(a) /\ Parses(t)
    /\ pc' = [pc EXCEPT ![a] = "revoking"]
    /\ tok' = [tok EXCEPT ![a] = t]
    /\ UNCHANGED <<now, server, store, at, history>>

\* Fault: the entry is kept for as long as this one token would have worked.
RevokeIdle(a) ==
    /\ pc[a] = "revoking"
    /\ revoked' = [s \in Sid |-> IF s = tok[a].sid THEN tok[a].refreshed + TTL
                                 ELSE IF revoked[s] <= now THEN 0 ELSE revoked[s]]
    /\ dead' = dead \cup {tok[a].sid}
    /\ Finish(a)
    /\ UNCHANGED <<now, hash, tokens, enabled, store, typedAt, started, used>>

\* ... and under revokedMu drops the entries that have run out and adds its own.
Revoke(a) ==
    /\ pc[a] = "revoking"
    /\ revoked' = [s \in Sid |-> IF s = tok[a].sid THEN tok[a].origin + MaxLife
                                 ELSE IF revoked[s] <= now THEN 0 ELSE revoked[s]]
    /\ dead' = dead \cup {tok[a].sid}
    /\ Finish(a)
    /\ UNCHANGED <<now, hash, tokens, enabled, store, typedAt, started, used>>

-----------------------------------------------------------------------------
\* Fault: Open keeps what was stored under another password.
OpenKeeping(h) ==
    /\ doc' = [saved EXCEPT !.tag = h]
    /\ saved' = doc'
    /\ enabled' = TRUE

\* Open: what was stored under another password is dropped.  It fails, and
\* there is no store until the next start, when that cannot be saved.
Open(h) ==
    IF saved.tag = h
      THEN doc' = saved /\ UNCHANGED saved /\ enabled' = TRUE
      ELSE /\ doc' = [tag |-> h, at |-> 0]
           /\ \/ saved' = doc' /\ enabled' = TRUE
              \/ UNCHANGED saved /\ enabled' = FALSE

\* The process ends at any point and starts again, with the same password or
\* another.  New draws a new secret: no token of before parses any more.
Restart(h) ==
    /\ hash' = h
    /\ tokens' = {} /\ revoked' = [s \in Sid |-> 0]
    /\ Open(h)
    /\ pc' = [a \in Request |-> "idle"]
    /\ tok' = [a \in Request |-> NoToken]
    /\ at' = [a \in Request |-> 0]
    /\ started' = [s \in Sid |-> 0] /\ used' = [s \in Sid |-> 0] /\ dead' = {}
    /\ UNCHANGED <<now, typedAt>>

\* The clock.
Tick == now < MaxNow /\ now' = now + 1 /\ UNCHANGED <<server, store, pc, tok, at, history>>

Next ==
    \/ Tick
    \/ \E h \in Hash : Restart(h)
    \/ \E a \in Request :
          \/ Stamp(a) \/ Record(a) \/ Asserted(a) \/ Refuse(a) \/ Reparse(a) \/ Slide(a) \/ Revoke(a)
          \/ \E s \in Sid : Type(a, s) \/ IssueFrom(a, s)
          \/ \E t \in tokens : Validate(a, t) \/ RevokeParse(a, t)

Spec == Init /\ [][Next]_vars
=============================================================================
