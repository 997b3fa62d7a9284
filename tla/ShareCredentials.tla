---------------------------- MODULE ShareCredentials ----------------------------
(***************************************************************************)
(* internal/webdavshare/service.go: the WebDAV share's settings, the gate   *)
(* built from them, and the cache of credentials the gate has accepted.     *)
(* Every field is guarded by Service.mu, but a request reads them, verifies *)
(* its password with the mutex released and takes it again to cache the     *)
(* pair, while the settings may change.                                     *)
(*                                                                         *)
(* A password stands for its argon2id hash.  The gate's lockouts and slots  *)
(* are AttemptGate's: here it may refuse any attempt.                       *)
(***************************************************************************)
EXTENDS Naturals, FiniteSets

CONSTANTS
    Request,      \* ServeHTTP calls in flight
    User, Password,
    DefaultUser,  \* DefaultUsername
    NoUser,       \* the empty username: not set
    NoPassword,   \* the empty hash: not set
    Typed,        \* the usernames the owner types, NoUser for an empty one
    Env,          \* what the environment may pin at a start
    Idle,         \* credCacheIdle
    MaxCached     \* maxCachedCreds

Pair == [user : User, pw : Password]
Settings == [enabled : BOOLEAN, user : User \cup {NoUser}, pw : Password \cup {NoPassword}]
Pins == [enabled : {"unset", "on", "off"}, user : User \cup {NoUser}, pw : Password \cup {NoPassword}]

ASSUME ShareAssumption ==
    /\ DefaultUser \in User /\ NoUser \notin User /\ NoPassword \notin Password
    /\ Typed \subseteq User \cup {NoUser} /\ Env \subseteq Pins
    /\ Idle \in Nat \ {0} /\ MaxCached \in Nat \ {0}

VARIABLES
    env,       \* envEnabled, envUsername, envPasswordHash of this process
    settings,  \* Service.settings
    stored,    \* the settings file
    gate,      \* the password Service.gate verifies
    cached,    \* the pairs in Service.cache
    left,      \* how long each of them is still accepted
    pc, cred,  \* where a request is, and the pair it presents
    want, verifier, \* authenticate's wantUser and gate
    \* history:
    fresh,     \* what is left of Idle since a pair was last accepted, unless
               \* the cache was dropped
    overtaken, \* the requests in flight when the cache was last dropped
    tainted,   \* the pairs such a request has cached
    unsaved    \* whether a username was set whose save failed

config  == <<env, settings, stored, gate>>
request == <<pc, cred, want, verifier>>
history == <<fresh, overtaken, tainted, unsaved>>
cache == <<cached, left>>
vars == <<config, cache, request, history>>

\* effectiveUsernameLocked and effectivePasswordHashLocked.
EffectiveUser(e, s) ==
    IF e.user # NoUser THEN e.user ELSE IF s.user # NoUser THEN s.user ELSE DefaultUser
EffectivePassword(e, s) == IF e.pw # NoPassword THEN e.pw ELSE s.pw

\* effectiveEnabledLocked, and Status.Active.
Enabled(e, s) == IF e.enabled = "unset" THEN s.enabled ELSE e.enabled = "on"
Active == Enabled(env, settings) /\ EffectivePassword(env, settings) # NoPassword

NoPair == [user |-> NoUser, pw |-> NoPassword]
All(x) == [r \in Request |-> x]

Unset == [enabled |-> FALSE, user |-> NoUser, pw |-> NoPassword]
Empty == [k \in Pair |-> 0]

\* The requests that have read the gate and not yet answered.
Authenticating == {r \in Request : pc[r] \in {"verify", "insert"}}

\* New, in a process whose environment is e and that loads s.
Start(e, s) ==
    /\ env' = e /\ settings' = s /\ gate' = EffectivePassword(e, s)
    /\ cached' = {} /\ left' = Empty /\ fresh' = Empty
    /\ overtaken' = {} /\ tainted' = {} /\ unsaved' = FALSE

Init ==
    /\ env \in Env /\ settings = Unset /\ stored = Unset
    /\ gate = EffectivePassword(env, settings)
    /\ cached = {} /\ left = Empty /\ fresh = Empty
    /\ pc = All("idle") /\ cred = All(NoPair) /\ want = All(NoUser) /\ verifier = All(NoPassword)
    /\ overtaken = {} /\ tainted = {} /\ unsaved = FALSE

\* The process ends and another starts.  A file it cannot read counts as none.
Restart ==
    /\ \E e \in Env, s \in {stored, Unset} : Start(e, s)
    /\ pc' = All("idle") /\ cred' = All(NoPair) /\ want' = All(NoUser) /\ verifier' = All(NoPassword)
    /\ UNCHANGED stored

-----------------------------------------------------------------------------
\* Fault: the gate of the old password stays.
ResetCacheOnly(s) ==
    /\ cached' = {} /\ left' = Empty /\ fresh' = Empty
    /\ overtaken' = Authenticating /\ tainted' = {} /\ unsaved' = FALSE
    /\ UNCHANGED gate

\* Fault: what was cached stays.
ResetGateOnly(s) ==
    /\ gate' = EffectivePassword(env, s)
    /\ overtaken' = Authenticating /\ tainted' = {} /\ unsaved' = FALSE
    /\ UNCHANGED <<cache, fresh>>

\* resetAuthLocked, the settings being s.
Reset(s) ==
    /\ gate' = EffectivePassword(env, s)
    /\ cached' = {} /\ left' = Empty /\ fresh' = Empty
    /\ overtaken' = Authenticating /\ tainted' = {} /\ unsaved' = FALSE

\* SetEnabled.  The file may fail to be written; the setting is kept.
SetEnabled(on, saves) ==
    /\ env.enabled = "unset"
    /\ settings' = [settings EXCEPT !.enabled = on]
    /\ stored' = IF saves THEN settings' ELSE stored
    /\ UNCHANGED <<env, gate, cache, request, history>>

\* What SetUsername and SetPassword do with the settings s: where they cannot
\* be saved the gate and the cache stay as they were.
Apply(s, saves) ==
    /\ settings' = s
    /\ \/ saves /\ stored' = s /\ Reset(s)
       \/ ~saves /\ unsaved' = TRUE /\ UNCHANGED <<stored, gate, cache, fresh, overtaken, tainted>>
    /\ UNCHANGED <<env, request>>

\* SetUsername; NoUser is the empty name, which resets it.
SetUsername(u, saves) ==
    /\ env.user = NoUser
    /\ Apply([settings EXCEPT !.user = u], saves)

\* SetPassword; NoPassword is the empty one, which clears it.
SetPassword(p, saves) ==
    /\ env.pw = NoPassword
    /\ Apply([settings EXCEPT !.pw = p], saves)

-----------------------------------------------------------------------------
\* What request r has in hand from here on: the pair it presents, and the
\* wantUser and gate that authenticate has read.
Hold(r, at, k, u, p) ==
    /\ pc' = [pc EXCEPT ![r] = at]
    /\ cred' = [cred EXCEPT ![r] = k]
    /\ want' = [want EXCEPT ![r] = u]
    /\ verifier' = [verifier EXCEPT ![r] = p]

\* The request is answered, with the share's files or with an error.
Answer(r) == Hold(r, "idle", NoPair, NoUser, NoPassword)

\* ServeHTTP looks at the status; where the share is inactive it answers 404.
Serve(r, k) ==
    /\ pc[r] = "idle" /\ Active
    /\ Hold(r, "auth", k, NoUser, NoPassword)
    /\ UNCHANGED <<config, cache, history>>

\* Fault: a hit does not renew the entry.
HitAsItWas(r) ==
    /\ pc[r] = "auth" /\ left[cred[r]] > 0
    /\ fresh' = [fresh EXCEPT ![cred[r]] = Idle]
    /\ Answer(r)
    /\ UNCHANGED <<config, cache, overtaken, tainted, unsaved>>

\* authenticate finds the pair in the cache.
Hit(r) ==
    /\ pc[r] = "auth" /\ left[cred[r]] > 0
    /\ left' = [left EXCEPT ![cred[r]] = Idle]
    /\ fresh' = [fresh EXCEPT ![cred[r]] = Idle]
    /\ Answer(r)
    /\ UNCHANGED <<config, cached, overtaken, tainted, unsaved>>

\* It does not, or finds it too old and drops it, and reads what to verify
\* against.  Without a password nothing is verified.
Miss(r) ==
    /\ pc[r] = "auth" /\ left[cred[r]] = 0
    /\ cached' = cached \ {cred[r]}
    /\ UNCHANGED left
    /\ IF EffectivePassword(env, settings) = NoPassword
       THEN Answer(r)
       ELSE Hold(r, "verify", cred[r], EffectiveUser(env, settings), gate)
    /\ UNCHANGED <<config, history>>

\* TryUnlock refuses (a wrong password, a lockout, no free slot), or the name
\* is wrong.
Refused(r) ==
    /\ pc[r] = "verify"
    /\ Answer(r)
    /\ overtaken' = overtaken \ {r}
    /\ UNCHANGED <<config, cache, fresh, tainted, unsaved>>

\* TryUnlock of the gate read before accepts the password, and the name is
\* the one read before.
Verified(r) ==
    /\ pc[r] = "verify"
    /\ cred[r] = [user |-> want[r], pw |-> verifier[r]]
    /\ Hold(r, "insert", cred[r], NoUser, NoPassword)
    /\ UNCHANGED <<config, cache, history>>

\* The verified pair is cached, in an empty cache if it was full.
Insert(r) ==
    LET k == cred[r]
        full == Cardinality(cached) >= MaxCached
    IN
    /\ pc[r] = "insert"
    /\ cached' = (IF full THEN {} ELSE cached) \cup {k}
    /\ left' = [(IF full THEN Empty ELSE left) EXCEPT ![k] = Idle]
    /\ fresh' = [(IF full THEN Empty ELSE fresh) EXCEPT ![k] = Idle]
    /\ tainted' = (IF full THEN {} ELSE tainted \ {k}) \cup (IF r \in overtaken THEN {k} ELSE {})
    /\ overtaken' = overtaken \ {r}
    /\ Answer(r)
    /\ UNCHANGED <<config, unsaved>>

\* Time passes.
Elapsed(f) == [k \in Pair |-> IF f[k] = 0 THEN 0 ELSE f[k] - 1]
Tick ==
    /\ left' = Elapsed(left) /\ fresh' = Elapsed(fresh)
    /\ UNCHANGED <<config, cached, request, overtaken, tainted, unsaved>>

Next ==
    \/ Tick
    \/ Restart
    \/ \E saves \in BOOLEAN :
        \/ \E on \in BOOLEAN : SetEnabled(on, saves)
        \/ \E u \in Typed : SetUsername(u, saves)
        \/ \E p \in Password \cup {NoPassword} : SetPassword(p, saves)
    \/ \E r \in Request :
        \/ \E k \in Pair : Serve(r, k)
        \/ Hit(r) \/ Miss(r) \/ Refused(r) \/ Verified(r) \/ Insert(r)

Spec == Init /\ [][Next]_vars

-----------------------------------------------------------------------------
\* Types of the variables of ShareCredentials.
TypeOK ==
    /\ env \in Env /\ settings \in Settings /\ stored \in Settings
    /\ gate \in Password \cup {NoPassword}
    /\ cached \subseteq Pair
    /\ left \in [Pair -> 0..Idle] /\ fresh \in [Pair -> 0..Idle]
    /\ pc \in [Request -> {"idle", "auth", "verify", "insert"}]
    /\ cred \in [Request -> Pair \cup {NoPair}]
    /\ \A r \in Request : pc[r] # "idle" => cred[r] \in Pair
    /\ want \in [Request -> User \cup {NoUser}]
    /\ verifier \in [Request -> Password \cup {NoPassword}]
    /\ tainted \subseteq Pair
    /\ overtaken \subseteq Authenticating
    /\ unsaved \in BOOLEAN

\* The name and the password in force.
InForce == [user |-> EffectiveUser(env, settings), pw |-> EffectivePassword(env, settings)]

\* A change of the name or the password drops every cached pair it
\* invalidates: only a request that had read the old settings by then can
\* still cache an old pair, and only a change whose save failed leaves one.
OnlyOvertakenIsStale == \A k \in cached \ tainted : k = InForce \/ unsaved

\* The pair a request in flight has found right or would find right.
Sought(r) == IF pc[r] = "verify" THEN [user |-> want[r], pw |-> verifier[r]] ELSE cred[r]

\* The inductive invariant: what a request in flight has read is what is in
\* force, unless a change has overtaken it, and the gate follows the settings
\* unless their save failed.
IndInv ==
    /\ TypeOK
    /\ gate = InForce.pw \/ unsaved
    /\ fresh = left
    /\ \A k \in cached \ tainted : k.pw = gate /\ (k.user = InForce.user \/ unsaved)
    /\ \A r \in Authenticating \ overtaken :
        Sought(r).pw = gate /\ (Sought(r).user = InForce.user \/ unsaved)

\* The comment on credCacheIdle: whoever was let in with a pair and comes back
\* with it in time, no change having been made and the cache not having been
\* full, is not verified again, so no lockout that others caused can refuse it.
OwnerStaysIn ==
    [][\A r \in Request :
        pc[r] = "auth" /\ pc'[r] = "verify" =>
            fresh[cred[r]] = 0]_vars

\* The comment on credCacheIdle: a hit means that the very pair has passed
\* against the current hash.
HitPassesGate == \A k \in Pair : left[k] > 0 => k.pw = gate
=============================================================================
