------------------------- MODULE ShareCredentialsProofs -------------------------
(***************************************************************************)
(* The inductive invariant of the share's credentials, and what follows.    *)
(***************************************************************************)
EXTENDS ShareCredentials, TLAPS

\* What the settings make the gate verify is a password or none, and the name
\* in force is a name.
LEMMA EffectiveType ==
    ASSUME NEW e \in Env, NEW s \in Settings
    PROVE /\ EffectivePassword(e, s) \in Password \cup {NoPassword}
          /\ EffectiveUser(e, s) \in User
BY ShareAssumption DEF Pins, Settings, EffectivePassword, EffectiveUser

\* Where no pair is accepted, none is accepted a tick later.
LEMMA EmptyType == Empty \in [Pair -> 0..Idle] /\ Unset \in Settings
BY ShareAssumption DEF Empty, Unset, Settings

LEMMA InitIndInv == Init => IndInv
<1> SUFFICES ASSUME Init PROVE IndInv
    OBVIOUS
<1>1. settings \in Settings /\ stored \in Settings /\ env \in Env
    BY EmptyType DEF Init
<1>2. gate \in Password \cup {NoPassword}
    BY <1>1, EffectiveType DEF Init
<1>3. cached \subseteq Pair /\ left \in [Pair -> 0..Idle] /\ fresh = left
    BY EmptyType DEF Init
<1>4. pc \in [Request -> {"idle", "auth", "verify", "insert"}] /\ \A r \in Request : pc[r] = "idle"
    BY DEF Init, All
<1>5. /\ cred \in [Request -> Pair \cup {NoPair}] /\ want \in [Request -> User \cup {NoUser}]
      /\ verifier \in [Request -> Password \cup {NoPassword}]
    BY DEF Init, All
<1>6. Authenticating = {}
    BY <1>4 DEF Authenticating
<1>7. TypeOK
    BY <1>1, <1>2, <1>3, <1>4, <1>5 DEF Init, TypeOK
<1> QED BY <1>3, <1>6, <1>7 DEF IndInv, Init, InForce

\* Where nothing but time and settings that decide nothing change, the
\* invariant stays.
LEMMA SameIndInv ==
    ASSUME IndInv, TypeOK', UNCHANGED <<gate, cached, overtaken, tainted, unsaved>>, fresh' = left',
           InForce' = InForce, Authenticating' = Authenticating,
           \A r \in Request : Sought(r)' = Sought(r)
    PROVE  IndInv'
<1>1. gate' = InForce'.pw \/ unsaved'
    BY DEF IndInv
<1>2. \A k \in cached' \ tainted' : k.pw = gate' /\ (k.user = InForce'.user \/ unsaved')
    BY DEF IndInv
<1>3. \A r \in Authenticating' \ overtaken' :
          Sought(r)'.pw = gate' /\ (Sought(r)'.user = InForce'.user \/ unsaved')
    BY DEF IndInv, Authenticating
<1> QED BY <1>1, <1>2, <1>3 DEF IndInv

-----------------------------------------------------------------------------
\* A process that starts has nothing cached and no request in flight.
LEMMA RestartIndInv == ASSUME IndInv, Restart PROVE IndInv'
<1>1. PICK e \in Env, s \in {stored, Unset} : Start(e, s)
    BY DEF Restart
<1>2. s \in Settings
    BY <1>1, EmptyType DEF IndInv, TypeOK
<1>3. settings' \in Settings /\ stored' \in Settings /\ env' \in Env
    BY <1>1, <1>2 DEF Restart, Start, IndInv, TypeOK
<1>4. gate' = EffectivePassword(env', settings')
    BY <1>1 DEF Start
<1>5. cached' = {} /\ left' \in [Pair -> 0..Idle] /\ fresh' = left'
    BY <1>1, EmptyType DEF Start
<1>6. /\ pc' \in [Request -> {"idle", "auth", "verify", "insert"}] /\ \A r \in Request : pc'[r] = "idle"
      /\ cred' \in [Request -> Pair \cup {NoPair}] /\ want' \in [Request -> User \cup {NoUser}]
      /\ verifier' \in [Request -> Password \cup {NoPassword}]
    BY DEF Restart, All
<1>7. Authenticating' = {}
    BY <1>6 DEF Authenticating
<1>8. TypeOK'
    BY <1>1, <1>3, <1>4, <1>5, <1>6, EffectiveType DEF TypeOK, Start
<1> QED BY <1>4, <1>5, <1>7, <1>8 DEF IndInv, InForce

\* A change of the settings either drops the cache and overtakes the requests
\* in flight, or is marked as one that was not saved.
LEMMA ApplyIndInv ==
    ASSUME IndInv, NEW s \in Settings, NEW saves \in BOOLEAN, Apply(s, saves)
    PROVE  IndInv'
<1> USE DEF IndInv, TypeOK
<1>1. /\ env' = env /\ settings' = s /\ UNCHANGED request /\ Authenticating' = Authenticating
      /\ \A r \in Request : Sought(r)' = Sought(r)
    BY DEF Apply, Authenticating, Sought, request
<1>2. CASE saves /\ stored' = s /\ Reset(s)
    <2>1. gate' = EffectivePassword(env', settings') /\ gate' \in Password \cup {NoPassword}
        BY <1>1, <1>2, EffectiveType DEF Reset
    <2>2. cached' = {} /\ left' \in [Pair -> 0..Idle] /\ fresh' = left'
        BY <1>2, EmptyType DEF Reset
    <2>3. TypeOK'
        BY <1>1, <1>2, <2>1, <2>2 DEF Reset, request
    <2> QED BY <1>1, <1>2, <2>1, <2>2, <2>3 DEF Reset, InForce
<1>3. CASE unsaved' = TRUE /\ UNCHANGED <<stored, gate, cache, fresh, overtaken, tainted>>
    <2>1. UNCHANGED <<gate, cached, left, fresh, overtaken, tainted, stored, pc, cred, want, verifier>>
        BY <1>1, <1>3 DEF cache, request
    <2>2. TypeOK'
        BY <1>1, <1>3, <2>1
    <2>3. \A k \in cached' \ tainted' : k.pw = gate'
        BY <2>1
    <2>4. \A r \in Authenticating' \ overtaken' : Sought(r)'.pw = gate'
        BY <1>1, <2>1 DEF Authenticating
    <2> QED BY <1>3, <2>1, <2>2, <2>3, <2>4
<1> QED BY <1>2, <1>3 DEF Apply

\* A step of one request leaves what the others have read as it was.
LEMMA HoldFrame ==
    ASSUME IndInv, NEW r \in Request, NEW at \in {"idle", "auth", "verify", "insert"},
           NEW k \in Pair \cup {NoPair}, at # "idle" => k \in Pair,
           NEW u \in User \cup {NoUser}, NEW p \in Password \cup {NoPassword}, Hold(r, at, k, u, p)
    PROVE  /\ pc' \in [Request -> {"idle", "auth", "verify", "insert"}]
           /\ cred' \in [Request -> Pair \cup {NoPair}]
           /\ want' \in [Request -> User \cup {NoUser}]
           /\ verifier' \in [Request -> Password \cup {NoPassword}]
           /\ \A q \in Request : pc'[q] # "idle" => cred'[q] \in Pair
           /\ pc'[r] = at
           /\ Sought(r)' = IF at = "verify" THEN [user |-> u, pw |-> p] ELSE k
           /\ \A q \in Request \ {r} : pc'[q] = pc[q] /\ Sought(q)' = Sought(q)
BY DEF IndInv, TypeOK, Hold, Sought

\* The part of the invariant about requests survives a step of request r that
\* leaves settings and gate alone, where it holds of r afterwards.
LEMMA RequestStep ==
    ASSUME IndInv, NEW r \in Request, UNCHANGED <<config, unsaved>>,
           overtaken' \in {overtaken, overtaken \ {r}},
           \A q \in Request \ {r} : pc'[q] = pc[q] /\ Sought(q)' = Sought(q),
           r \in Authenticating' \ overtaken' =>
               Sought(r)'.pw = gate /\ (Sought(r)'.user = InForce.user \/ unsaved)
    PROVE  \A q \in Authenticating' \ overtaken' :
               Sought(q)'.pw = gate' /\ (Sought(q)'.user = InForce'.user \/ unsaved')
BY DEF IndInv, config, InForce, Authenticating

\* What a step of one request leaves alone in settings and gate.
LEMMA ConfigFrame ==
    ASSUME IndInv, UNCHANGED <<config, unsaved>>
    PROVE  /\ env' \in Env /\ settings' \in Settings /\ stored' \in Settings
           /\ gate' \in Password \cup {NoPassword} /\ unsaved' \in BOOLEAN
           /\ InForce' = InForce /\ (gate' = InForce'.pw \/ unsaved')
BY DEF IndInv, TypeOK, config, InForce

\* A step in which one request goes on preserves the invariant, where what it
\* caches and what it holds are in force unless a change has overtaken it.
LEMMA StepIndInv ==
    ASSUME IndInv, NEW r \in Request, NEW at \in {"idle", "auth", "verify", "insert"},
           NEW k \in Pair \cup {NoPair}, at # "idle" => k \in Pair,
           NEW u \in User \cup {NoUser}, NEW p \in Password \cup {NoPassword}, Hold(r, at, k, u, p),
           UNCHANGED <<config, unsaved>>,
           \/ overtaken' = overtaken /\ (r \in overtaken => at \in {"verify", "insert"})
           \/ overtaken' = overtaken \ {r} /\ at = "idle",
           cached' \subseteq Pair, left' \in [Pair -> 0..Idle], fresh' = left', tainted' \subseteq Pair,
           \A c \in cached' \ tainted' : c.pw = gate /\ (c.user = InForce.user \/ unsaved),
           at = "verify" /\ r \notin overtaken => p = gate /\ (u = InForce.user \/ unsaved),
           at = "insert" /\ r \notin overtaken => k.pw = gate /\ (k.user = InForce.user \/ unsaved)
    PROVE  IndInv'
<1>1. /\ pc' \in [Request -> {"idle", "auth", "verify", "insert"}]
      /\ cred' \in [Request -> Pair \cup {NoPair}] /\ want' \in [Request -> User \cup {NoUser}]
      /\ verifier' \in [Request -> Password \cup {NoPassword}]
      /\ \A q \in Request : pc'[q] # "idle" => cred'[q] \in Pair
      /\ pc'[r] = at /\ \A q \in Request \ {r} : pc'[q] = pc[q] /\ Sought(q)' = Sought(q)
      /\ Sought(r)' = IF at = "verify" THEN [user |-> u, pw |-> p] ELSE k
    BY HoldFrame
<1>2. /\ env' \in Env /\ settings' \in Settings /\ stored' \in Settings
      /\ gate' \in Password \cup {NoPassword} /\ unsaved' \in BOOLEAN
      /\ InForce' = InForce /\ (gate' = InForce'.pw \/ unsaved')
    BY ConfigFrame
<1>3. gate' = gate /\ unsaved' = unsaved
    BY DEF config
<1>4. overtaken' \subseteq Authenticating'
    BY <1>1 DEF IndInv, TypeOK, Authenticating
<1>5. TypeOK'
    BY <1>1, <1>2, <1>4 DEF TypeOK
<1>6. r \in Authenticating' \ overtaken' =>
          Sought(r)'.pw = gate /\ (Sought(r)'.user = InForce.user \/ unsaved)
    <2> SUFFICES ASSUME r \in Authenticating' \ overtaken'
                 PROVE  Sought(r)'.pw = gate /\ (Sought(r)'.user = InForce.user \/ unsaved)
        OBVIOUS
    <2>1. at \in {"verify", "insert"}
        BY <1>1 DEF Authenticating
    <2>2. CASE r \notin overtaken
        BY <1>1, <2>1, <2>2
    <2>3. CASE r \in overtaken
        BY <2>1, <2>3
    <2> QED BY <2>2, <2>3
<1>7. \A q \in Authenticating' \ overtaken' :
          Sought(q)'.pw = gate' /\ (Sought(q)'.user = InForce'.user \/ unsaved')
    BY <1>1, <1>6, RequestStep
<1> QED BY <1>2, <1>3, <1>5, <1>7 DEF IndInv

LEMMA RequestIndInv ==
    ASSUME IndInv, NEW r \in Request,
           (\E k \in Pair : Serve(r, k)) \/ Hit(r) \/ Miss(r) \/ Refused(r) \/ Verified(r) \/ Insert(r)
    PROVE  IndInv'
<1> USE DEF IndInv, TypeOK
<1>1. r \in overtaken => pc[r] \in {"verify", "insert"}
    BY DEF Authenticating
<1>2. pc[r] # "idle" => cred[r] \in Pair
    OBVIOUS
<1>3. ASSUME NEW k \in Pair, Serve(r, k) PROVE IndInv'
    <2>1. /\ UNCHANGED <<config, unsaved, cached, left, fresh, overtaken, tainted>> /\ r \notin overtaken
          /\ Hold(r, "auth", k, NoUser, NoPassword)
        BY <1>1, <1>3 DEF Serve, cache, history
    <2> HIDE DEF IndInv, TypeOK
    <2> QED BY <2>1, StepIndInv DEF IndInv, TypeOK
<1>4. CASE Hit(r)
    <2>1. /\ UNCHANGED <<config, unsaved, cached, overtaken, tainted>> /\ r \notin overtaken
          /\ Hold(r, "idle", NoPair, NoUser, NoPassword)
        BY <1>1, <1>4 DEF Hit, Answer
    <2>2. left' \in [Pair -> 0..Idle] /\ fresh' = left'
        BY <1>4, ShareAssumption DEF Hit
    <2> HIDE DEF IndInv, TypeOK
    <2> QED BY <2>1, <2>2, StepIndInv DEF IndInv, TypeOK
<1>5. CASE Miss(r)
    <2>1. /\ UNCHANGED <<config, unsaved, left, fresh, overtaken, tainted>> /\ r \notin overtaken
          /\ cached' \subseteq cached /\ pc[r] = "auth"
        BY <1>1, <1>5 DEF Miss, history
    <2>2. InForce.user \in User
        BY EffectiveType DEF InForce
    <2>3. CASE Hold(r, "idle", NoPair, NoUser, NoPassword)
        <3> HIDE DEF IndInv, TypeOK
        <3> QED BY <2>1, <2>3, StepIndInv DEF IndInv, TypeOK
    <2>4. CASE Hold(r, "verify", cred[r], InForce.user, gate)
        <3> HIDE DEF IndInv, TypeOK
        <3> QED BY <1>2, <2>1, <2>2, <2>4, StepIndInv DEF IndInv, TypeOK
    <2> QED BY <1>5, <2>3, <2>4 DEF Miss, Answer, InForce
<1>6. CASE Refused(r)
    <2>1. /\ UNCHANGED <<config, unsaved, cached, left, fresh, tainted>> /\ overtaken' = overtaken \ {r}
          /\ Hold(r, "idle", NoPair, NoUser, NoPassword)
        BY <1>6 DEF Refused, Answer, cache
    <2> HIDE DEF IndInv, TypeOK
    <2> QED BY <2>1, StepIndInv DEF IndInv, TypeOK
<1>7. CASE Verified(r)
    <2>1. /\ UNCHANGED <<config, unsaved, cached, left, fresh, overtaken, tainted>> /\ pc[r] = "verify"
          /\ Hold(r, "insert", cred[r], NoUser, NoPassword) /\ cred[r] = Sought(r)
        BY <1>7 DEF Verified, cache, history, Sought
    <2>2. r \notin overtaken => Sought(r).pw = gate /\ (Sought(r).user = InForce.user \/ unsaved)
        BY <2>1 DEF Authenticating
    <2> HIDE DEF IndInv, TypeOK
    <2> QED BY <1>2, <2>1, <2>2, StepIndInv DEF IndInv, TypeOK
<1>8. CASE Insert(r)
    <2>1. /\ UNCHANGED <<config, unsaved>> /\ pc[r] = "insert" /\ cred[r] \in Pair /\ overtaken' = overtaken \ {r}
          /\ Hold(r, "idle", NoPair, NoUser, NoPassword)
        BY <1>8 DEF Insert, Answer
    <2>2. /\ cached' \subseteq cached \cup {cred[r]}
          /\ cached' \ tainted' \subseteq (cached \ tainted) \cup (IF r \in overtaken THEN {} ELSE {cred[r]})
          /\ tainted' \subseteq tainted \cup {cred[r]}
        BY <1>8 DEF Insert
    <2>3. left' \in [Pair -> 0..Idle] /\ fresh' = left'
        <3>1. Idle \in 0..Idle
            BY ShareAssumption
        <3> QED BY <1>8, <3>1, EmptyType DEF Insert
    <2>4. r \notin overtaken => cred[r].pw = gate /\ (cred[r].user = InForce.user \/ unsaved)
        BY <2>1 DEF Authenticating, Sought
    <2> HIDE DEF IndInv, TypeOK
    <2> QED BY <2>1, <2>2, <2>3, <2>4, StepIndInv DEF IndInv, TypeOK
<1> QED BY <1>3, <1>4, <1>5, <1>6, <1>7, <1>8

LEMMA TickIndInv == ASSUME IndInv, Tick PROVE IndInv'
<1>1. UNCHANGED <<env, settings, stored, gate, cached, pc, cred, want, verifier, overtaken, tainted, unsaved>>
    BY DEF Tick, config, request
<1>2. left' \in [Pair -> 0..Idle] /\ fresh' = left'
    BY ShareAssumption DEF Tick, Elapsed, IndInv, TypeOK
<1>3. TypeOK'
    BY <1>1, <1>2 DEF IndInv, TypeOK, Authenticating
<1>4. InForce' = InForce /\ Authenticating' = Authenticating /\ \A r \in Request : Sought(r)' = Sought(r)
    BY <1>1 DEF InForce, Authenticating, Sought
<1> QED BY <1>1, <1>2, <1>3, <1>4, SameIndInv

\* The invariant of the share's credentials: what is cached and what requests
\* in flight have read is in force, unless a change overtook it.
THEOREM IndInvHolds == Spec => []IndInv
<1>1. ASSUME IndInv, [Next]_vars PROVE IndInv'
    <2>1. CASE UNCHANGED vars
        <3>1. UNCHANGED <<env, settings, stored, gate, cached, left, pc, cred, want, verifier,
                          fresh, overtaken, tainted, unsaved>>
            BY <2>1 DEF vars, config, cache, request, history
        <3> QED BY <1>1, <3>1 DEF IndInv, TypeOK, InForce, Sought, Authenticating
    <2>2. ASSUME NEW saves \in BOOLEAN, NEW on \in BOOLEAN, SetEnabled(on, saves) PROVE IndInv'
        <3>1. /\ UNCHANGED <<env, gate, cached, left, pc, cred, want, verifier, fresh, overtaken, tainted, unsaved>>
              /\ settings' \in Settings /\ stored' \in Settings
              /\ settings'.user = settings.user /\ settings'.pw = settings.pw
            BY <1>1, <2>2 DEF SetEnabled, IndInv, TypeOK, Settings, cache, request, history
        <3>2. InForce' = InForce /\ Authenticating' = Authenticating /\ \A r \in Request : Sought(r)' = Sought(r)
            BY <3>1 DEF InForce, EffectiveUser, EffectivePassword, Authenticating, Sought
        <3>3. TypeOK'
            BY <1>1, <3>1, <3>2 DEF IndInv, TypeOK
        <3>4. fresh' = left'
            BY <1>1, <3>1 DEF IndInv
        <3> QED BY <1>1, <3>1, <3>2, <3>3, <3>4, SameIndInv
    <2>3. ASSUME NEW saves \in BOOLEAN, NEW u \in Typed, SetUsername(u, saves) PROVE IndInv'
        <3>1. [settings EXCEPT !.user = u] \in Settings
            BY <1>1, ShareAssumption DEF IndInv, TypeOK, Settings
        <3> QED BY <1>1, <2>3, <3>1, ApplyIndInv DEF SetUsername
    <2>4. ASSUME NEW saves \in BOOLEAN, NEW p \in Password \cup {NoPassword}, SetPassword(p, saves) PROVE IndInv'
        <3>1. [settings EXCEPT !.pw = p] \in Settings
            BY <1>1 DEF IndInv, TypeOK, Settings
        <3> QED BY <1>1, <2>4, <3>1, ApplyIndInv DEF SetPassword
    <2> QED BY <1>1, <2>1, <2>2, <2>3, <2>4, RestartIndInv, RequestIndInv, TickIndInv DEF Next
<1> QED BY <1>1, InitIndInv, PTL DEF Spec

\* A change of the name or the password leaves no old pair cached, except what
\* a request it overtook caches later or a failed save left.
THEOREM OnlyOvertakenIsStaleAlways == Spec => []OnlyOvertakenIsStale
<1>1. IndInv => OnlyOvertakenIsStale
    <2> SUFFICES ASSUME IndInv, NEW k \in cached \ tainted, ~unsaved PROVE k = InForce
        BY DEF OnlyOvertakenIsStale
    <2>1. k \in Pair /\ k.pw = InForce.pw /\ k.user = InForce.user
        BY DEF IndInv, TypeOK
    <2> QED BY <2>1 DEF Pair, InForce
<1> QED BY <1>1, IndInvHolds, PTL

\* Who comes back in time is not verified again.
THEOREM OwnerStaysInAlways == Spec => OwnerStaysIn
<1>1. ASSUME IndInv, [Next]_vars, NEW r \in Request, pc[r] = "auth", pc'[r] = "verify"
      PROVE  fresh[cred[r]] = 0
    <2>1. ASSUME NEW q \in Request, NEW at \in {"idle", "auth", "verify", "insert"},
                 NEW k, NEW u, NEW p, Hold(q, at, k, u, p)
          PROVE  q = r /\ at = "verify"
        BY <1>1, <2>1 DEF Hold, IndInv, TypeOK
    <2>2. CASE pc' = pc
        BY <1>1, <2>2
    <2>3. CASE Restart
        BY <1>1, <2>3 DEF Restart, All
    <2>4. ASSUME NEW q \in Request,
                 (\E k \in Pair : Serve(q, k)) \/ Hit(q) \/ Refused(q) \/ Verified(q) \/ Insert(q)
          PROVE  FALSE
        <3>1. (\E k \in Pair : Hold(q, "auth", k, NoUser, NoPassword)) \/ Hold(q, "idle", NoPair, NoUser, NoPassword)
              \/ Hold(q, "insert", cred[q], NoUser, NoPassword)
            BY <2>4 DEF Serve, Hit, Refused, Verified, Insert, Answer
        <3> QED BY <2>1, <3>1
    <2>5. ASSUME NEW q \in Request, Miss(q) PROVE fresh[cred[r]] = 0
        <3>1. q = r
            BY <1>1, <2>5, <2>1 DEF Miss, Answer, EffectivePassword
        <3> QED BY <1>1, <2>5, <3>1 DEF Miss, IndInv
    <2>6. CASE UNCHANGED request
        BY <2>2, <2>6 DEF request
    <2> QED BY <1>1, <2>3, <2>4, <2>5, <2>6 DEF Next, vars, Tick, SetEnabled, SetUsername, SetPassword, Apply
<1>2. IndInv /\ [Next]_vars =>
        [\A r \in Request : pc[r] = "auth" /\ pc'[r] = "verify" => fresh[cred[r]] = 0]_vars
    BY <1>1
<1> QED BY <1>2, IndInvHolds, PTL DEF Spec, OwnerStaysIn
=============================================================================
