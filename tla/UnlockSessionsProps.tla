-------------------------- MODULE UnlockSessionsProps --------------------------
(***************************************************************************)
(* What must hold of unlock sessions (UnlockSessions).                     *)
(***************************************************************************)
EXTENDS UnlockSessions

\* Types of the variables of UnlockSessions.
TypeOK ==
    /\ now \in 1..MaxNow
    /\ hash \in Hash
    /\ tokens \subseteq Token
    /\ revoked \in [Sid -> Nat]
    /\ doc \in Document /\ saved \in Document
    /\ enabled \in BOOLEAN
    /\ pc \in [Request -> {"idle", "typed", "stamped", "asserted", "validated", "sliding", "revoking"}]
    /\ tok \in [Request -> Token \cup {NoToken}]
    /\ \A a \in Request : pc[a] \notin {"idle", "asserted"} => tok[a] \in Token
    /\ at \in [Request -> Time]
    /\ typedAt \in [Hash -> Time]
    /\ started \in [Sid -> Time]
    /\ used \in [Sid -> Time]
    /\ dead \subseteq Sid

\* Lock now ends the session everywhere: once Revoke has returned no token of
\* that session opens anything, whichever copy, refresh or response in flight
\* it is, although the server forgets it again ("that token and every copy or
\* refresh of it stop working").
RevokedIsDead == \A t \in tokens : t.sid \in dead => ~Unlocked(t)

\* Whatever is unlocked, the password now in force was typed less than
\* passwordReauthInterval ago, through restarts, password changes and a store
\* that could not be written.
PasswordIsRecent ==
    \A t \in tokens : Unlocked(t) => typedAt[hash] # 0 /\ now < typedAt[hash] + Reauth

\* No session lasts longer than maxSessionLifetime, however it is refreshed.
SessionCapped == \A t \in tokens : Unlocked(t) => now < started[t.sid] + MaxLife

\* A session no request has used for sessionTTL is over.
IdleIsOver ==
    \A t \in tokens : Unlocked(t) => now < started[t.sid] + TTL \/ now < used[t.sid] + TTL

\* Whether some token of the session of t still opens things.
Live(s) == \E t \in tokens : t.sid = s /\ Unlocked(t)

\* A session in use stays unlocked until its cap, provided its requests come
\* no further apart than sessionTTL less the refresh threshold.
ActiveStaysUnlocked ==
    \A t \in tokens :
        /\ used[t.sid] # 0 /\ now + Refresh <= used[t.sid] + TTL
        /\ now < t.origin + MaxLife /\ revoked[t.sid] = 0
        => Live(t.sid)

\* The tokens there are, those still on their way to a browser included.
Issued == tokens \cup {tok[a] : a \in {b \in Request : pc[b] \in {"typed", "stamped", "validated", "sliding", "revoking"}}}

\* The inductive invariant: what ties a token to its session, its session to
\* the revocation, and both to the password.
IndInv ==
    /\ TypeOK
    /\ \A t \in Issued : /\ t.origin <= t.refreshed /\ t.refreshed <= now
                         /\ t.origin <= started[t.sid]
                         /\ t.origin + MaxLife <= typedAt[hash] + Reauth /\ typedAt[hash] # 0
    /\ \A t, u \in Issued : t.sid = u.sid => t.origin = u.origin
    /\ \A t \in Issued : revoked[t.sid] # 0 => revoked[t.sid] = t.origin + MaxLife
    /\ \A t \in Issued : t.sid \in dead => revoked[t.sid] # 0 \/ t.origin + MaxLife <= now
    /\ \A h \in Hash : typedAt[h] <= now
    /\ doc.tag = hash /\ (enabled => doc.at <= typedAt[hash])
    /\ saved.at <= typedAt[saved.tag]
    /\ \A a \in Request : pc[a] \in {"stamped", "asserted"} => at[a] <= typedAt[hash]
=============================================================================
